---- MODULE Spec2Model ----
(***************************************************************************)
(* Buffered stream I/O as used by the example programs of the repository:  *)
(* bufio.Writer, bufio.Reader, bufio.Scanner and io.Pipe, driven by the    *)
(* calls the examples make (bw.Write, bw.Flush, bw.Reset, br.Peek,         *)
(* br.ReadSlice, br.ReadLine, br.ReadBytes, s.Scan, io.Pipe / Read /       *)
(* Write / Close).  The operators follow the algorithms of the Go library  *)
(* that those calls execute.                                               *)
(***************************************************************************)
EXTENDS Integers, Sequences, FiniteSets, TLC

\* ------------------------------------------------------------------ bounds
\* largest buffer size passed to bufio.NewWriterSize / NewReaderSize
MaxCap == 2
\* longest payload of one bw.Write call: long enough for a payload that, after
\* filling the buffer, still exceeds the capacity
MaxWriteLen == MaxCap + 2
\* number of calls made on one buffered writer: enough to fill the largest
\* buffer byte by byte, overflow it and flush
MaxOps == MaxCap + 2
\* longest payload of one Write on the pipe, and largest buffer of one Read
MaxMsg == 2
\* number of Write calls made on the pipe
MaxCalls == 3
\* longest source read through a buffered reader
MaxSrc == 5
\* the scanner's first buffer and the largest it may grow to (startBufSize
\* and MaxScanTokenSize, scaled down)
StartBufSize == 1
MaxTokenSize == 3
\* Scan calls made after one has returned false
MaxFalse == 2
\* bytes a failing sink call may still accept before it reports its error
ShortCounts == {0, 1}
\* the sinks a writer is bound to in turn (writerOne, writerTwo)
NSinks == 2
\* the bs.Reset calls of ReuseBuffer
MaxResets == 1
\* the sources of a multi-reader (r1, r2, r3) and the longest of them
MaxReaders == 3
MaxPart == 2
\* the longest source a re-used reader read first, and the longest it is
\* re-used on
MaxOld == 3
MaxNew == 2
\* the largest magnitude of the small ints IntMin is tried on
MaxInt == 5
\* the lines of the file whose last lines are printed
MaxLines == 8
\* the bytes of the client's message, and the bytes a direction of the
\* connection holds
MaxMessage == 3
MaxSock == 2
\* the goroutines that serve HTTP requests at once, and the requests served
MaxConn == 2
MaxReqs == 3
\* the sinks of a multi-writer, and the Write calls made on it
MaxWriters == 3
MaxWrites == 2

Min(a, b) == IF a < b THEN a ELSE b

\* The bytes of a payload.  The writer never inspects the bytes it moves, so
\* the k-th byte handed to Write over the life of the writer is the number k:
\* any loss, duplication or reordering shows in the sink.
Payload(first, len) == [i \in 1..len |-> first + i - 1]

Drop(s, n) == SubSeq(s, n + 1, Len(s))
Take(s, n) == SubSeq(s, 1, n)

VARIABLES
  \* ---- buffered writer
  bw,      \* the bufio.Writer: size, buf (= b.buf[0:b.n]), err, wr (bound sink)
  sinks,   \* per sink: log (argument of every Write call it got), got (bytes accepted)
  wnext,   \* number of the next byte handed to bw.Write
  whist,   \* the calls made on bw so far, in order: op, len (of a Reset: the
           \* new sink, with lost, the bytes that were buffered)
  wprev,   \* bw and sinks as they were before the last call
  wret,    \* what the last call returned: n and err
  \* ---- io.Pipe
  pipe,    \* the pipe: done (closed channel), werr, rerr (onceError), wrMu (holder)
  ptw,     \* per writing task: pc, b (bytes of its Write not yet consumed), n, len, first
  ptr,     \* the reading task: pc, size (len of its buffer), data (bytes copied)
  pwret,   \* what the last Write to return returned, of which task and where from
  prret,   \* what the last Read returned, and where from
  psent,   \* the bytes of the Write calls, in the order the writes were serialized
  prcvd,   \* the bytes returned by the Read calls so far, in order
  pcalls,  \* number of Write calls made on the pipe
  pwfail,  \* whether a Write that had started to send returned an error
  \* ---- buffered reader
  br,      \* the bufio.Reader: buf (of len size), r, w, err
  rsrc,    \* the source: data (bytes not yet read from it), chunk (most bytes per read)
  rlast,   \* the last call on br: op, arg, the bytes and error it returned, and
           \* u, the unconsumed stream before the call
  rprev,   \* the call before the last one: op, arg, res, err
  \* ---- a loop of reads on the buffered reader br
  lin,     \* the string the source was made from
  lop,     \* the call the loop makes: op and delim
  lret,    \* what the last call returned: res, err, isPrefix, drop, own, at,
           \* and u, the unconsumed stream before the call
  lout,    \* the bytes returned so far, each line with what was dropped from it
  lline,   \* the logical line being read: start (the unconsumed stream where
           \* it began), acc (its fragments so far), n (their number), closed
  lheld,   \* a returned token the caller kept: where its bytes are, what they were
  lresets, \* number of bs.Reset calls made
  \* ---- scanner
  sc,      \* the bufio.Scanner: split, buf, start, end, err, token, max
  ssrc,    \* its source: data still to read, chunk, end (the error at its end)
  sin,     \* the string the source was made from
  stoks,   \* the tokens of the Scan calls that returned true, in order
  sret,    \* the Scan calls so far: ok (what the last one returned), falses
           \* (how many returned false), stop (Err() after the first of them),
           \* after (the last one was made after one had returned false)
  \* ---- io.MultiReader, io.MultiWriter, io.TeeReader
  cmode,   \* which of the example programs runs
  mr,      \* the multiReader: readers (the sources not yet dropped)
  mw,      \* the multiWriter: writers (its sinks, in list order)
  tee,     \* the teeReader: r (its source), w (its side sink)
  csinks,  \* per sink: log (argument of every Write call it got), got (bytes accepted)
  clog,    \* the calls made on the sources and sinks, in order: id, n, err
  cin,     \* the bytes the source was made from (of a multi-reader: one string
           \* per source), or the bytes written so far
  cout,    \* the bytes returned to the consumer so far, or the lengths of the
           \* writes made so far
  cret,    \* the last call on the combinator: n, err, log (the part of clog it
           \* made), p (what was written), got (bytes the source gave), sinkerr,
           \* before (the sinks, or the source's data, before the call)
  \* ---- the smaller programs of the repository
  imin,    \* a call of IntMin: n1, n2, ans, called
  rf,      \* the reader watched for its source reads: pre (the reader before the
           \* last call), n (source reads made before it), bytes (bytes handed
           \* out by ReadByte), eofs (calls that returned EOF), bytewise (only
           \* ReadByte was called)
  ag,      \* the lines of the ReadLine loop set beside the tokens of the
           \* Scanner: lines (what the ReadLine calls returned), done (the
           \* loop met an error and broke)
  users,   \* var users = []user{} of the HTTP server
  hs,      \* the goroutines that serve requests: pc, method, newUser, snap
           \* (the slice the range loop runs over), base (the slice append
           \* read), status (the status code answered)
  hst,     \* served (requests taken so far), overlap (two POST handlers
           \* have been between their check and their append at once)
  conn,    \* the TCP connection: c2s and s2c (bytes in flight each way), c2sFin
           \* and s2cFin (that direction was closed), cap (bytes a direction
           \* holds), temp (len(temp) of the read loops)
  cl,      \* the client: pc, message, rest (of the message, not yet sent), data
  sv,      \* the server's handleConnection: pc, data, rest (not yet sent back)
  ctx,     \* the context of doSomething: err (nil until it is done)
  ds,      \* doSomething: pc, i
  da,      \* doAnother: pc, got (the values received), late (those received
           \* with the context already done)
  pl       \* a call of printLastNLines: lines, num, res, panic, called

wvars == <<bw, sinks, wnext, whist, wprev, wret>>
pvars == <<pipe, ptw, ptr, pwret, prret, psent, prcvd, pcalls, pwfail>>
rvars == <<br, rsrc, rlast, rprev>>
lvars == <<lin, lop, lret, lout, lline, lheld, lresets>>
svars == <<sc, ssrc, sin, stoks, sret>>
cvars == <<cmode, mr, mw, tee, csinks, clog, cin, cout, cret>>
ivars == <<imin>>
fvars == <<rf>>
avars == <<ag>>
hvars == <<users, hs, hst>>
tvars == <<conn, cl, sv>>
gvars == <<ctx, ds, da>>
kvars == <<pl>>
evars == <<ivars, fvars, avars, hvars, tvars, gvars, kvars>>
vars == <<wvars, pvars, rvars, lvars, svars, cvars, evars>>

\* ------------------------------------------------------------ the sink
\* (*Writer).Write of the examples: prints p and returns len(p), nil.  A sink in
\* general may fail: ok = FALSE is a call that accepts k bytes and reports an
\* error.
SinkWrite(ss, wr, p, ok, k) ==
  LET n == IF ok THEN Len(p) ELSE Min(k, Len(p))
  IN [sinks |-> [ss EXCEPT ![wr] = [log |-> Append(@.log, p),
                                    got |-> @.got \o Take(p, n)]],
      n     |-> n,
      err   |-> IF ok THEN "nil" ELSE "EIO"]

\* --------------------------------------------------------- bufio.Writer
\* bufio.NewWriterSize(w, size)
NewWriterSize(wr, size) == [size |-> size, buf |-> <<>>, err |-> "nil", wr |-> wr]

\* b.Buffered()
Buffered(b) == Len(b.buf)

\* A plausible slip: the last byte of the buffer is never used.
AvailableOffByOne(b) == b.size - Len(b.buf) - 1

\* b.Available(): len(b.buf) - b.n
Available(b) == b.size - Len(b.buf)

\* A plausible slip: after a failed sink write Flush tries once more with what
\* the sink did not take.
FlushRetries(b, ss, ok, k) ==
  IF b.err # "nil" THEN [bw |-> b, sinks |-> ss, err |-> b.err]
  ELSE IF Len(b.buf) = 0 THEN [bw |-> b, sinks |-> ss, err |-> "nil"]
  ELSE LET r == SinkWrite(ss, b.wr, b.buf, ok, k)
       IN IF r.err # "nil"
          THEN LET r2 == SinkWrite(r.sinks, b.wr, Drop(b.buf, r.n), ok, k)
               IN [bw |-> [b EXCEPT !.buf = Drop(@, r.n + r2.n), !.err = r2.err],
                   sinks |-> r2.sinks, err |-> r2.err]
          ELSE [bw |-> [b EXCEPT !.buf = <<>>], sinks |-> r.sinks, err |-> "nil"]

\* A plausible slip: Flush calls the sink even when nothing is buffered.
FlushAlways(b, ss, ok, k) ==
  IF b.err # "nil" THEN [bw |-> b, sinks |-> ss, err |-> b.err]
  ELSE LET r == SinkWrite(ss, b.wr, b.buf, ok, k)
       IN IF r.err # "nil"
          THEN [bw |-> [b EXCEPT !.buf = Drop(@, r.n), !.err = r.err],
                sinks |-> r.sinks, err |-> r.err]
          ELSE [bw |-> [b EXCEPT !.buf = <<>>], sinks |-> r.sinks, err |-> "nil"]

\* b.Flush(): one sink write of b.buf[0:b.n]; on failure the unwritten tail is
\* kept and the error sticks.
Flush(b, ss, ok, k) ==
  IF b.err # "nil" THEN [bw |-> b, sinks |-> ss, err |-> b.err]
  ELSE IF Len(b.buf) = 0 THEN [bw |-> b, sinks |-> ss, err |-> "nil"]
  ELSE LET r == SinkWrite(ss, b.wr, b.buf, ok, k)
       IN IF r.err # "nil"
          THEN [bw |-> [b EXCEPT !.buf = Drop(@, r.n), !.err = r.err],
                sinks |-> r.sinks, err |-> r.err]
          ELSE [bw |-> [b EXCEPT !.buf = <<>>], sinks |-> r.sinks, err |-> "nil"]

\* A plausible slip in the loop of b.Write: ">=" for ">", so that a payload that
\* exactly fits is treated as one that does not.
RECURSIVE WriteLoopGE(_, _, _, _, _, _)
WriteLoopGE(b, ss, p, nn, ok, k) ==
  IF Len(p) >= Available(b) /\ b.err = "nil"
  THEN IF Buffered(b) = 0
       THEN LET r == SinkWrite(ss, b.wr, p, ok, k)
            IN WriteLoopGE([b EXCEPT !.err = r.err], r.sinks, Drop(p, r.n),
                           nn + r.n, ok, k)
       ELSE LET n == Min(Available(b), Len(p))
                f == Flush([b EXCEPT !.buf = @ \o Take(p, n)], ss, ok, k)
            IN WriteLoopGE(f.bw, f.sinks, Drop(p, n), nn + n, ok, k)
  ELSE IF b.err # "nil"
       THEN [bw |-> b, sinks |-> ss, n |-> nn, err |-> b.err]
       ELSE [bw |-> [b EXCEPT !.buf = @ \o p], sinks |-> ss,
             n |-> nn + Len(p), err |-> "nil"]

\* A plausible slip in the loop of b.Write: a payload that does not fit goes
\* straight to the sink even when older bytes are still buffered.
RECURSIVE WriteLoopDirect(_, _, _, _, _, _)
WriteLoopDirect(b, ss, p, nn, ok, k) ==
  IF Len(p) > Available(b) /\ b.err = "nil"
  THEN LET r == SinkWrite(ss, b.wr, p, ok, k)
       IN WriteLoopDirect([b EXCEPT !.err = r.err], r.sinks, Drop(p, r.n),
                          nn + r.n, ok, k)
  ELSE IF b.err # "nil"
       THEN [bw |-> b, sinks |-> ss, n |-> nn, err |-> b.err]
       ELSE [bw |-> [b EXCEPT !.buf = @ \o p], sinks |-> ss,
             n |-> nn + Len(p), err |-> "nil"]

\* A plausible slip in the loop of b.Write: the payload is measured against the
\* capacity, not against the space left.
RECURSIVE WriteLoopCapacity(_, _, _, _, _, _)
WriteLoopCapacity(b, ss, p, nn, ok, k) ==
  IF Len(p) > b.size /\ b.err = "nil"
  THEN IF Buffered(b) = 0
       THEN LET r == SinkWrite(ss, b.wr, p, ok, k)
            IN WriteLoopCapacity([b EXCEPT !.err = r.err], r.sinks, Drop(p, r.n),
                                 nn + r.n, ok, k)
       ELSE LET n == Min(Available(b), Len(p))
                f == Flush([b EXCEPT !.buf = @ \o Take(p, n)], ss, ok, k)
            IN WriteLoopCapacity(f.bw, f.sinks, Drop(p, n), nn + n, ok, k)
  ELSE IF b.err # "nil"
       THEN [bw |-> b, sinks |-> ss, n |-> nn, err |-> b.err]
       ELSE [bw |-> [b EXCEPT !.buf = @ \o p], sinks |-> ss,
             n |-> nn + Len(p), err |-> "nil"]

\* The loop of b.Write(p): while p does not fit and no error is pending, either
\* write p directly (empty buffer) or fill the buffer from p and flush it.
RECURSIVE WriteLoop(_, _, _, _, _, _)
WriteLoop(b, ss, p, nn, ok, k) ==
  IF Len(p) > Available(b) /\ b.err = "nil"
  THEN IF Buffered(b) = 0
       THEN LET r == SinkWrite(ss, b.wr, p, ok, k)
            IN WriteLoop([b EXCEPT !.err = r.err], r.sinks, Drop(p, r.n),
                         nn + r.n, ok, k)
       ELSE LET n == Min(Available(b), Len(p))
                f == Flush([b EXCEPT !.buf = @ \o Take(p, n)], ss, ok, k)
            IN WriteLoop(f.bw, f.sinks, Drop(p, n), nn + n, ok, k)
  ELSE IF b.err # "nil"
       THEN [bw |-> b, sinks |-> ss, n |-> nn, err |-> b.err]
       ELSE [bw |-> [b EXCEPT !.buf = @ \o p], sinks |-> ss,
             n |-> nn + Len(p), err |-> "nil"]

\* A plausible slip: flush as soon as a write has filled the buffer.
WriteEager(b, ss, p, ok, k) ==
  LET r == WriteLoop(b, ss, p, 0, ok, k)
  IN IF r.err = "nil" /\ Available(r.bw) = 0
     THEN LET f == Flush(r.bw, r.sinks, ok, k)
          IN [bw |-> f.bw, sinks |-> f.sinks, n |-> r.n, err |-> f.err]
     ELSE r

\* A plausible slip: the bytes that do not fit are cut off.
WriteTruncate(b, ss, p, ok, k) ==
  WriteLoop(b, ss, Take(p, Min(Len(p), b.size)), 0, ok, k)

\* b.Write(p)
Write(b, ss, p, ok, k) == WriteLoop(b, ss, p, 0, ok, k)

\* A plausible slip: Reset rebinds and keeps what was buffered.
ResetKeepsBuffer(b, wr) == [b EXCEPT !.err = "nil", !.wr = wr]

\* b.Reset(w): drops the unflushed bytes and the pending error, rebinds.
Reset(b, wr) == [b EXCEPT !.buf = <<>>, !.err = "nil", !.wr = wr]

\* ------------------------------------------------ writer: the state machine
NoSink == [log |-> <<>>, got |-> <<>>]

WriterInit ==
  /\ \E size \in 1..MaxCap : bw = NewWriterSize(1, size)
  /\ sinks = [i \in 1..NSinks |-> NoSink]
  /\ wnext = 1
  /\ whist = <<>>
  /\ wprev = [bw |-> bw, sinks |-> sinks]
  /\ wret = [n |-> 0, err |-> "nil"]

\* bw.Write(p) with len(p) = len
DoWrite ==
  /\ Len(whist) < MaxOps
  /\ \E len \in 0..MaxWriteLen, ok \in BOOLEAN, k \in ShortCounts :
       LET r == Write(bw, sinks, Payload(wnext, len), ok, k)
       IN /\ bw' = r.bw
          /\ sinks' = r.sinks
          /\ wnext' = wnext + len
          /\ whist' = Append(whist, [op |-> "Write", len |-> len])
          /\ wprev' = [bw |-> bw, sinks |-> sinks]
          /\ wret' = [n |-> r.n, err |-> r.err]
  /\ UNCHANGED <<pvars, rvars, lvars, svars, cvars, evars>>

\* bw.Flush()
DoFlush ==
  /\ Len(whist) < MaxOps
  /\ \E ok \in BOOLEAN, k \in ShortCounts :
       LET r == Flush(bw, sinks, ok, k)
       IN /\ bw' = r.bw
          /\ sinks' = r.sinks
          /\ whist' = Append(whist, [op |-> "Flush", len |-> 0])
          /\ wprev' = [bw |-> bw, sinks |-> sinks]
          /\ wret' = [n |-> 0, err |-> r.err]
          /\ UNCHANGED wnext
  /\ UNCHANGED <<pvars, rvars, lvars, svars, cvars, evars>>

\* bw.Reset(w)
DoReset ==
  /\ Len(whist) < MaxOps
  /\ \E wr \in 1..NSinks :
       /\ bw' = Reset(bw, wr)
       /\ whist' = Append(whist, [op |-> "Reset", len |-> wr, lost |-> bw.buf])
       /\ wprev' = [bw |-> bw, sinks |-> sinks]
       /\ wret' = [n |-> 0, err |-> "nil"]
       /\ UNCHANGED <<sinks, wnext>>
  /\ UNCHANGED <<pvars, rvars, lvars, svars, cvars, evars>>

NextW == DoWrite \/ DoFlush \/ DoReset

\* ------------------------------------------------------- writer: claims
LastW == whist[Len(whist)]
\* the payload of the last call, when it was a Write
LastPayload == Payload(wnext - LastW.len, LastW.len)
\* the sink calls made during the last call, on the sink the writer is bound to
NewCalls == Drop(sinks[bw.wr].log, Len(wprev.sinks[bw.wr].log))
OnlyWrites(h) == \A i \in 1..Len(h) : h[i].op = "Write"
OneByteWrites(h) == \A i \in 1..Len(h) : h[i] = [op |-> "Write", len |-> 1]
NoSinkCall == \A i \in 1..NSinks : sinks[i].log = <<>>

OversizedWrite ==
  /\ whist # <<>> /\ LastW.op = "Write" /\ LastW.len > bw.size
  /\ wprev.bw.err = "nil" /\ wret.err = "nil"

Writers == {1, 2}

\* The store kept the last error instead of the first.
onceErrorLast(old, err) == err

\* onceError.Store: the first error stored stays.
onceErrorStore(old, err) == IF old = "nil" THEN err ELSE old

\* (*pipe).readCloseError: the error a Read returns on a closed pipe
readCloseError(p) ==
  IF p.rerr = "nil" /\ p.werr # "nil" THEN p.werr ELSE "ErrClosedPipe"

\* (*pipe).writeCloseError: the error a Write returns on a closed pipe
writeCloseError(p) ==
  IF p.werr = "nil" /\ p.rerr # "nil" THEN p.rerr ELSE "ErrClosedPipe"

\* closeWrite forgot to close p.done.
closeWriteNoDone(p, err) ==
  [p EXCEPT !.werr = onceErrorStore(@, IF err = "nil" THEN "EOF" ELSE err)]

\* w.Close() (err = "nil") and w.CloseWithError(err)
closeWrite(p, err) ==
  [p EXCEPT !.werr = onceErrorStore(@, IF err = "nil" THEN "EOF" ELSE err),
            !.done = TRUE]

\* closeRead forgot to close p.done.
closeReadNoDone(p) == [p EXCEPT !.rerr = onceErrorStore(@, "ErrClosedPipe")]

\* r.Close()
closeRead(p) ==
  [p EXCEPT !.rerr = onceErrorStore(@, "ErrClosedPipe"), !.done = TRUE]

\* nr := copy(b, bw): the bytes one Read takes of the data a writer offers
copy(size, data) == Take(data, Min(size, Len(data)))

\* The writer takes the whole write as consumed after the first Read.
AdvanceAll(b, nw) == <<>>

\* b = b[nw:]: what is left of a write after a Read consumed nw bytes
Advance(b, nw) == Drop(b, nw)

\* the write mutex is not taken
MutexIgnored(p, w) == TRUE

\* p.wrMu.Lock() can return for task w
MutexFree(p, w) == p.wrMu = 0

\* p.wrCh <- b completes only against a Read that is receiving
ReceiverWaiting(t) == t.pc = "recv"

NoWrite == [pc |-> "idle", b |-> <<>>, n |-> 0, len |-> 0, first |-> 0]
NoWriteRet == [w |-> 0, n |-> 0, err |-> "nil", at |-> "none", len |-> 0,
               first |-> 0, rerr |-> "nil"]
NoRead == [pc |-> "idle", size |-> 0, data |-> <<>>]
NoReadRet == [data |-> <<>>, err |-> "nil", at |-> "none", werr |-> "nil",
              rerr |-> "nil"]

PipeInit ==
  /\ pipe = [done |-> FALSE, werr |-> "nil", rerr |-> "nil", wrMu |-> 0]
  /\ ptw = [w \in Writers |-> NoWrite]
  /\ ptr = NoRead
  /\ pwret = NoWriteRet
  /\ prret = NoReadRet
  /\ psent = <<>>
  /\ prcvd = <<>>
  /\ pcalls = 0
  /\ pwfail = FALSE

\* the return of a Write of task w
WriteReturns(w, len, n, err, at) ==
  /\ ptw' = [ptw EXCEPT ![w] = NoWrite]
  /\ pwret' = [w |-> w, n |-> n, err |-> err, at |-> at, len |-> len,
               first |-> ptw[w].first, rerr |-> pipe.rerr]

\* w.Write(b), entry: a closed pipe refuses the write at once; otherwise the
\* task goes for the write mutex.
PWriteCall(w) ==
  /\ ptw[w].pc = "idle"
  /\ pcalls < MaxCalls
  /\ \E len \in 0..MaxMsg :
       IF pipe.done
       THEN WriteReturns(w, len, 0, writeCloseError(pipe), "idle")
       ELSE /\ ptw' = [ptw EXCEPT ![w] = [NoWrite EXCEPT !.pc = "lock",
                                                         !.len = len]]
            /\ UNCHANGED pwret
  /\ pcalls' = pcalls + 1
  /\ UNCHANGED <<pipe, ptr, prret, psent, prcvd, pwfail>>
  /\ UNCHANGED <<wvars, rvars, lvars, svars, cvars, evars>>

\* p.wrMu.Lock() returns: the write is the one being sent from now on.
PWriteLock(w) ==
  /\ ptw[w].pc = "lock"
  /\ MutexFree(pipe, w)
  /\ pipe' = [pipe EXCEPT !.wrMu = w]
  /\ ptw' = [ptw EXCEPT ![w] = [@ EXCEPT !.pc = "send",
                                         !.b = Payload(Len(psent) + 1, ptw[w].len),
                                         !.first = Len(psent) + 1]]
  /\ psent' = psent \o Payload(Len(psent) + 1, ptw[w].len)
  /\ UNCHANGED <<ptr, pwret, prret, prcvd, pcalls, pwfail>>
  /\ UNCHANGED <<wvars, rvars, lvars, svars, cvars, evars>>

\* case p.wrCh <- b / case bw := <-p.wrCh: the rendezvous of a sending Write
\* and a receiving Read; the Read copies what fits in its buffer.  A closed
\* p.done has already woken every select that was waiting.
PHandoff(w) ==
  /\ ptw[w].pc = "send"
  /\ ReceiverWaiting(ptr)
  /\ ~pipe.done
  /\ ptw' = [ptw EXCEPT ![w].pc = "ack"]
  /\ ptr' = [ptr EXCEPT !.pc = "copied", !.data = copy(ptr.size, ptw[w].b)]
  /\ UNCHANGED <<pipe, pwret, prret, psent, prcvd, pcalls, pwfail>>
  /\ UNCHANGED <<wvars, rvars, lvars, svars, cvars, evars>>

\* p.rdCh <- nr / nw := <-p.rdCh: the Read returns its bytes; the Write drops
\* them from b and either sends the rest or returns.
PAck(w) ==
  /\ ptw[w].pc = "ack"
  /\ ptr.pc = "copied"
  /\ LET nw == Len(ptr.data)
         b == Advance(ptw[w].b, nw)
     IN /\ IF Len(b) > 0
           THEN /\ ptw' = [ptw EXCEPT ![w] = [@ EXCEPT !.pc = "send", !.b = b,
                                                      !.n = @ + nw]]
                /\ UNCHANGED <<pwret, pipe>>
           ELSE /\ WriteReturns(w, ptw[w].len, ptw[w].n + nw, "nil", "ack")
                /\ pipe' = [pipe EXCEPT !.wrMu = 0]
        /\ prcvd' = prcvd \o ptr.data
        /\ prret' = [data |-> ptr.data, err |-> "nil", at |-> "copied",
                     werr |-> pipe.werr, rerr |-> pipe.rerr]
        /\ ptr' = NoRead
  /\ UNCHANGED <<psent, pcalls, pwfail>>
  /\ UNCHANGED <<wvars, rvars, lvars, svars, cvars, evars>>

\* case <-p.done in the loop of write: the Write gives up with what was
\* consumed so far.
PWriteClosed(w) ==
  /\ ptw[w].pc = "send"
  /\ pipe.done
  /\ WriteReturns(w, ptw[w].len, ptw[w].n, writeCloseError(pipe), "send")
  /\ pipe' = [pipe EXCEPT !.wrMu = 0]
  /\ pwfail' = TRUE
  /\ UNCHANGED <<ptr, prret, psent, prcvd, pcalls>>
  /\ UNCHANGED <<wvars, rvars, lvars, svars, cvars, evars>>

\* r.Read(data), entry: a closed pipe answers at once; otherwise the Read
\* waits for a writer or for the close.
PReadCall ==
  /\ ptr.pc = "idle"
  /\ \E size \in 0..MaxMsg :
       IF pipe.done
       THEN /\ prret' = [data |-> <<>>, err |-> readCloseError(pipe),
                         at |-> "idle", werr |-> pipe.werr, rerr |-> pipe.rerr]
            /\ UNCHANGED ptr
       ELSE /\ ptr' = [pc |-> "recv", size |-> size, data |-> <<>>]
            /\ UNCHANGED prret
  /\ UNCHANGED <<pipe, ptw, pwret, psent, prcvd, pcalls, pwfail>>
  /\ UNCHANGED <<wvars, rvars, lvars, svars, cvars, evars>>

\* case <-p.done in read: the waiting Read is woken by the close.
PReadClosed ==
  /\ ptr.pc = "recv"
  /\ pipe.done
  /\ prret' = [data |-> <<>>, err |-> readCloseError(pipe), at |-> "recv",
               werr |-> pipe.werr, rerr |-> pipe.rerr]
  /\ ptr' = NoRead
  /\ UNCHANGED <<pipe, ptw, pwret, psent, prcvd, pcalls, pwfail>>
  /\ UNCHANGED <<wvars, rvars, lvars, svars, cvars, evars>>

\* w.Close() / w.CloseWithError(err), from any task
PCloseWrite ==
  /\ \E err \in {"nil", "EIO"} : pipe' = closeWrite(pipe, err)
  /\ UNCHANGED <<ptw, ptr, pwret, prret, psent, prcvd, pcalls, pwfail>>
  /\ UNCHANGED <<wvars, rvars, lvars, svars, cvars, evars>>

\* r.Close(), from any task
PCloseRead ==
  /\ pipe' = closeRead(pipe)
  /\ UNCHANGED <<ptw, ptr, pwret, prret, psent, prcvd, pcalls, pwfail>>
  /\ UNCHANGED <<wvars, rvars, lvars, svars, cvars, evars>>

PWriteStep ==
  \E w \in Writers :
    \/ PWriteCall(w) \/ PWriteLock(w) \/ PHandoff(w) \/ PAck(w) \/ PWriteClosed(w)

NextP == PWriteStep \/ PReadCall \/ PReadClosed \/ PCloseWrite \/ PCloseRead

\* ---------------------------------------------------------- pipe: claims
IsPrefix(s, t) == Len(s) <= Len(t) /\ Take(t, Len(s)) = s
\* the writing tasks whose Write is being sent
Sending == {w \in Writers : ptw[w].pc \in {"send", "ack"}}
\* the bytes of the Write being sent that no Read has returned yet
InFlight == IF Sending = {} THEN <<>> ELSE ptw[CHOOSE w \in Sending : TRUE].b

\* C4: the bytes returned by the Reads, concatenated, are the bytes written,
\* in write order: nothing is lost, duplicated or reordered.  While no Write
\* has been cut short by a close, what was written is what was read followed
\* by the rest of the Write being sent; when no Write is under way, the two
\* are equal.
C4_PipeFidelity ==
  /\ IsPrefix(prcvd, psent)
  /\ ~pwfail => psent = prcvd \o InFlight
  /\ (~pwfail /\ Sending = {}) => prcvd = psent

\* C4 witness: several Writes, one of them read in more than one Read, have
\* all been received.
C4_Witness ==
  /\ ~pwfail /\ \A w \in Writers : ptw[w].pc = "idle"
  /\ pcalls >= 2 /\ Len(prcvd) >= 3 /\ prcvd = psent
  /\ pwret.at = "ack" /\ pwret.len = 2 /\ Len(prret.data) = 1

\* C5: a Write that returns without error has had every byte consumed by
\* Reads; at most one Write is being sent at any time; and a Write that waits
\* to send while no Read is receiving and the pipe is open cannot take a step
\* (a task that writes first and reads afterwards never gets to its Read).
C5_WriteBlocksUntilRead ==
  /\ (pwret.at # "none" /\ pwret.err = "nil")
       => /\ pwret.at = "ack" /\ pwret.n = pwret.len
          /\ Len(prcvd) >= pwret.first + pwret.len - 1
          /\ SubSeq(prcvd, pwret.first, pwret.first + pwret.len - 1)
               = Payload(pwret.first, pwret.len)
  /\ Cardinality(Sending) <= 1
  /\ \A w \in Writers :
       (ptw[w].pc = "send" /\ ptr.pc # "recv" /\ ~pipe.done)
         => ~ENABLED (PHandoff(w) \/ PAck(w) \/ PWriteClosed(w))

\* C5 witness: a Write, part of which has been read, waits with no Read
\* receiving.
C5_Witness ==
  \E w \in Writers :
    /\ ptw[w].pc = "send" /\ ptw[w].n > 0 /\ Len(ptw[w].b) > 0
    /\ ptr.pc = "idle" /\ ~pipe.done

\* the pipe never reopens and the error of the write end, once set, stays
ClosedIsTerminal ==
  /\ pipe.done => pipe'.done
  /\ pipe.werr # "nil" => (pipe.done /\ pipe'.werr = pipe.werr)
\* once the write end is closed no Read is handed data any more
NoDataAfterClose ==
  (pipe.werr # "nil" /\ ptr.pc # "copied") => ptr'.pc # "copied"
\* a Read waiting on a closed pipe can return
ReadUnblocked == (ptr.pc = "recv" /\ pipe.done) => ENABLED PReadClosed
\* the last Read returned off the closed p.done while the write end was closed
ReadOnClosedWriter == prret.at \in {"idle", "recv"} /\ prret.werr # "nil"

C7_WritesAfterReaderClose ==
  [][ /\ (\A w \in Writers :
            (ptw[w].pc = "send" /\ pipe.rerr # "nil") => ENABLED PWriteClosed(w))'
      /\ ((pwret.at \in {"idle", "send"} /\ pwret.rerr # "nil")
            => pwret.err = "ErrClosedPipe")'
      /\ \A w \in Writers :
           (pipe.rerr # "nil" /\ ptw[w].pc = "idle") => ptw'[w].pc = "idle" ]_vars

\* C7 witness: a Write that was waiting, part of it read, returned the
\* closed-pipe error after the read end was closed.
C7_Witness ==
  /\ pwret.at = "send" /\ pwret.rerr # "nil" /\ pwret.err = "ErrClosedPipe"
  /\ pwret.n > 0 /\ pwret.n < pwret.len

\* =========================================================== bufio.Reader
\* The bytes a source holds: '\n', '\r' and 'a', which stands for every byte
\* that no delimiter matches.
LF == 10
CR == 13
Alphabet == {LF, CR, 97}

RECURSIVE SeqsOf(_, _)
\* the sequences over S of length n
SeqsOf(S, n) ==
  IF n = 0 THEN {<<>>}
  ELSE {Append(t, x) : t \in SeqsOf(S, n - 1), x \in S}
\* strings.NewReader(str), for every str of up to MaxSrc bytes
Sources == UNION {SeqsOf(Alphabet, n) : n \in 0..MaxSrc}

\* rd.Read(p) with len(p) = max on a source of the strings.Reader kind: at
\* the end 0, io.EOF and otherwise the next bytes, at most chunk of them.
SrcRead(src, max) ==
  LET s == IF "asked" \in DOMAIN src
           THEN [src EXCEPT !.asked = Append(@, max)] ELSE src
  IN IF Len(src.data) = 0
     THEN [src |-> s, data |-> <<>>, err |-> "EOF"]
     ELSE LET n == Min(Min(max, src.chunk), Len(src.data))
          IN [src |-> [s EXCEPT !.data = Drop(@, n)], data |-> Take(src.data, n),
              err |-> "nil"]

\* bufio.NewReaderSize(rd, size).  The library raises size to its minimum of
\* 16 bytes; a size here is the length of the buffer the reader ends up with,
\* scaled down.
NewReaderSize(size) ==
  [size |-> size, buf |-> [i \in 1..size |-> 0], r |-> 0, w |-> 0, err |-> "nil"]

\* b.Buffered(): b.w - b.r
RBuffered(b) == b.w - b.r

\* b.buf[b.r : b.r+n]
Window(b, n) == SubSeq(b.buf, b.r + 1, b.r + n)

\* A plausible slip: fill asks the source for one byte, whatever room is left.
fillOneByte(b, src) ==
  LET n == b.w - b.r
      slid == [i \in 1..b.size |-> IF i <= n THEN b.buf[b.r + i] ELSE b.buf[i]]
      rd == SrcRead(src, 1)
  IN [b   |-> [b EXCEPT !.buf = [i \in 1..b.size |->
                                   IF i > n /\ i <= n + Len(rd.data)
                                   THEN rd.data[i - n] ELSE slid[i]],
                        !.r = 0,
                        !.w = n + Len(rd.data),
                        !.err = rd.err],
      src |-> rd.src]

\* b.fill(): slide the unread bytes to the front, then one read of the
\* source into the free rest of the buffer.
fill(b, src) ==
  LET n == b.w - b.r
      slid == [i \in 1..b.size |-> IF i <= n THEN b.buf[b.r + i] ELSE b.buf[i]]
      rd == SrcRead(src, b.size - n)
  IN [b   |-> [b EXCEPT !.buf = [i \in 1..b.size |->
                                   IF i > n /\ i <= n + Len(rd.data)
                                   THEN rd.data[i - n] ELSE slid[i]],
                        !.r = 0,
                        !.w = n + Len(rd.data),
                        !.err = rd.err],
      src |-> rd.src]

\* the loop of b.Peek(n): fill while fewer than n bytes are buffered, the
\* buffer is not full and no error is pending
RECURSIVE PeekFill(_, _, _)
PeekFill(b, src, n) ==
  IF RBuffered(b) < n /\ RBuffered(b) < b.size /\ b.err = "nil"
  THEN LET f == fill(b, src) IN PeekFill(f.b, f.src, n)
  ELSE [b |-> b, src |-> src]

\* Peek advanced the read cursor past the bytes it returned.
PeekConsuming(b, src, n) ==
  LET f == PeekFill(b, src, n)
      k == Min(Min(n, RBuffered(f.b)), f.b.size)
  IN [b |-> [f.b EXCEPT !.r = @ + k], src |-> f.src, res |-> Window(f.b, k),
      err |-> "nil"]

\* Peek tested the request against the capacity only after the end of the
\* source.
PeekEOFFirst(b, src, n) ==
  LET f == PeekFill(b, src, n)
      avail == RBuffered(f.b)
  IN IF avail < n /\ f.b.err # "nil"
     THEN [b |-> [f.b EXCEPT !.err = "nil"], src |-> f.src,
           res |-> Window(f.b, avail), err |-> f.b.err]
     ELSE IF n > f.b.size
     THEN [b |-> f.b, src |-> f.src, res |-> Window(f.b, avail),
           err |-> "ErrBufferFull"]
     ELSE [b |-> f.b, src |-> f.src, res |-> Window(f.b, Min(n, avail)),
           err |-> IF avail < n THEN "ErrBufferFull" ELSE "nil"]

\* b.Peek(n): the next n bytes without advancing the reader.
Peek(b, src, n) ==
  LET f == PeekFill(b, src, n)
      avail == RBuffered(f.b)
  IN IF n > f.b.size
     THEN [b |-> f.b, src |-> f.src, res |-> Window(f.b, avail),
           err |-> "ErrBufferFull"]
     ELSE IF avail < n
     THEN \* not enough data in buffer: err = b.readErr(), or ErrBufferFull
          [b |-> [f.b EXCEPT !.err = "nil"], src |-> f.src,
           res |-> Window(f.b, avail),
           err |-> IF f.b.err = "nil" THEN "ErrBufferFull" ELSE f.b.err]
     ELSE [b |-> f.b, src |-> f.src, res |-> Window(f.b, n), err |-> "nil"]

\* bytes.IndexByte(s, delim), counted from 1; 0 when delim is not in s
IndexByte(s, delim) ==
  IF \E i \in 1..Len(s) : s[i] = delim
  THEN CHOOSE i \in 1..Len(s) : s[i] = delim /\ \A j \in 1..(i - 1) : s[j] # delim
  ELSE 0

\* ReadSlice returned the bytes before the delimiter only.
RECURSIVE ReadSliceExclusive(_, _, _)
ReadSliceExclusive(b, src, delim) ==
  LET i == IndexByte(Window(b, RBuffered(b)), delim)
  IN IF i > 0
     THEN [b |-> [b EXCEPT !.r = @ + i], src |-> src, res |-> Window(b, i - 1),
           err |-> "nil"]
     ELSE IF b.err # "nil"
     THEN [b |-> [b EXCEPT !.r = b.w, !.err = "nil"], src |-> src,
           res |-> Window(b, RBuffered(b)), err |-> b.err]
     ELSE IF RBuffered(b) >= b.size
     THEN [b |-> [b EXCEPT !.r = b.w], src |-> src, res |-> b.buf,
           err |-> "ErrBufferFull"]
     ELSE LET f == fill(b, src) IN ReadSliceExclusive(f.b, f.src, delim)

\* ReadSlice left the cursor where it was when the buffer was full.
RECURSIVE ReadSliceNoAdvance(_, _, _)
ReadSliceNoAdvance(b, src, delim) ==
  LET i == IndexByte(Window(b, RBuffered(b)), delim)
  IN IF i > 0
     THEN [b |-> [b EXCEPT !.r = @ + i], src |-> src, res |-> Window(b, i),
           err |-> "nil"]
     ELSE IF b.err # "nil"
     THEN [b |-> [b EXCEPT !.r = b.w, !.err = "nil"], src |-> src,
           res |-> Window(b, RBuffered(b)), err |-> b.err]
     ELSE IF RBuffered(b) >= b.size
     THEN [b |-> b, src |-> src, res |-> b.buf, err |-> "ErrBufferFull"]
     ELSE LET f == fill(b, src) IN ReadSliceNoAdvance(f.b, f.src, delim)

\* ReadSlice returned nothing with the error of the source, instead of the
\* bytes it had.
RECURSIVE ReadSliceDropsPartial(_, _, _)
ReadSliceDropsPartial(b, src, delim) ==
  LET i == IndexByte(Window(b, RBuffered(b)), delim)
  IN IF i > 0
     THEN [b |-> [b EXCEPT !.r = @ + i], src |-> src, res |-> Window(b, i),
           err |-> "nil"]
     ELSE IF b.err # "nil"
     THEN [b |-> [b EXCEPT !.r = b.w, !.err = "nil"], src |-> src,
           res |-> <<>>, err |-> b.err]
     ELSE IF RBuffered(b) >= b.size
     THEN [b |-> [b EXCEPT !.r = b.w], src |-> src, res |-> b.buf,
           err |-> "ErrBufferFull"]
     ELSE LET f == fill(b, src) IN ReadSliceDropsPartial(f.b, f.src, delim)

\* b.ReadSlice(delim): search the buffer; if delim is not there, return on a
\* pending error or a full buffer, else fill and search again.
RECURSIVE ReadSlice(_, _, _)
ReadSlice(b, src, delim) ==
  LET i == IndexByte(Window(b, RBuffered(b)), delim)
  IN IF i > 0
     THEN [b |-> [b EXCEPT !.r = @ + i], src |-> src, res |-> Window(b, i),
           err |-> "nil"]
     ELSE IF b.err # "nil"
     THEN [b |-> [b EXCEPT !.r = b.w, !.err = "nil"], src |-> src,
           res |-> Window(b, RBuffered(b)), err |-> b.err]
     ELSE IF RBuffered(b) >= b.size
     THEN [b |-> [b EXCEPT !.r = b.w], src |-> src, res |-> b.buf,
           err |-> "ErrBufferFull"]
     ELSE LET f == fill(b, src) IN ReadSlice(f.b, f.src, delim)

\* b.ReadByte(): fill while the buffer is empty, then take one byte.
RECURSIVE ReadByte(_, _)
ReadByte(b, src) ==
  IF b.r = b.w
  THEN IF b.err # "nil"
       THEN [b |-> [b EXCEPT !.err = "nil"], src |-> src, res |-> <<>>,
             err |-> b.err]
       ELSE LET f == fill(b, src) IN ReadByte(f.b, f.src)
  ELSE [b |-> [b EXCEPT !.r = @ + 1], src |-> src, res |-> Window(b, 1),
        err |-> "nil"]

\* ReadLine took only the "\n" off a line that ends in "\r\n".
ReadLineKeepsCR(b, src) ==
  LET s == ReadSlice(b, src, LF)
      n == Len(s.res)
      at == s.b.r - n
  IN IF s.err = "ErrBufferFull"
     THEN IF n > 0 /\ s.res[n] = CR
          THEN [b |-> [s.b EXCEPT !.r = @ - 1], src |-> s.src,
                res |-> Take(s.res, n - 1), isPrefix |-> TRUE, err |-> "nil",
                drop |-> <<>>, at |-> at]
          ELSE [b |-> s.b, src |-> s.src, res |-> s.res, isPrefix |-> TRUE,
                err |-> "nil", drop |-> <<>>, at |-> at]
     ELSE IF n = 0
     THEN [b |-> s.b, src |-> s.src, res |-> <<>>, isPrefix |-> FALSE,
           err |-> s.err, drop |-> <<>>, at |-> at]
     ELSE IF s.res[n] = LF
     THEN [b |-> s.b, src |-> s.src, res |-> Take(s.res, n - 1),
           isPrefix |-> FALSE, err |-> "nil", drop |-> Drop(s.res, n - 1),
           at |-> at]
     ELSE [b |-> s.b, src |-> s.src, res |-> s.res, isPrefix |-> FALSE,
           err |-> "nil", drop |-> <<>>, at |-> at]

\* ReadLine did not put back the '\r' at the end of a full buffer.
ReadLineNoPutBack(b, src) ==
  LET s == ReadSlice(b, src, LF)
      n == Len(s.res)
      at == s.b.r - n
  IN IF s.err = "ErrBufferFull"
     THEN [b |-> s.b, src |-> s.src, res |-> s.res, isPrefix |-> TRUE,
           err |-> "nil", drop |-> <<>>, at |-> at]
     ELSE IF n = 0
     THEN [b |-> s.b, src |-> s.src, res |-> <<>>, isPrefix |-> FALSE,
           err |-> s.err, drop |-> <<>>, at |-> at]
     ELSE IF s.res[n] = LF
     THEN LET k == IF n > 1 /\ s.res[n - 1] = CR THEN 2 ELSE 1
          IN [b |-> s.b, src |-> s.src, res |-> Take(s.res, n - k),
              isPrefix |-> FALSE, err |-> "nil", drop |-> Drop(s.res, n - k),
              at |-> at]
     ELSE [b |-> s.b, src |-> s.src, res |-> s.res, isPrefix |-> FALSE,
           err |-> "nil", drop |-> <<>>, at |-> at]

\* b.ReadLine(): ReadSlice('\n'); a full buffer gives a fragment with
\* isPrefix set, after a '\r' at its end is put back for the next call to
\* pair with its '\n'; otherwise the line without its "\n" or "\r\n".  drop
\* holds the bytes taken off the end of the line, and at the place of the
\* line in b.buf.
ReadLine(b, src) ==
  LET s == ReadSlice(b, src, LF)
      n == Len(s.res)
      at == s.b.r - n
  IN IF s.err = "ErrBufferFull"
     THEN IF n > 0 /\ s.res[n] = CR
          THEN [b |-> [s.b EXCEPT !.r = @ - 1], src |-> s.src,
                res |-> Take(s.res, n - 1), isPrefix |-> TRUE, err |-> "nil",
                drop |-> <<>>, at |-> at]
          ELSE [b |-> s.b, src |-> s.src, res |-> s.res, isPrefix |-> TRUE,
                err |-> "nil", drop |-> <<>>, at |-> at]
     ELSE IF n = 0
     THEN [b |-> s.b, src |-> s.src, res |-> <<>>, isPrefix |-> FALSE,
           err |-> s.err, drop |-> <<>>, at |-> at]
     ELSE IF s.res[n] = LF
     THEN LET k == IF n > 1 /\ s.res[n - 1] = CR THEN 2 ELSE 1
          IN [b |-> s.b, src |-> s.src, res |-> Take(s.res, n - k),
              isPrefix |-> FALSE, err |-> "nil", drop |-> Drop(s.res, n - k),
              at |-> at]
     ELSE [b |-> s.b, src |-> s.src, res |-> s.res, isPrefix |-> FALSE,
           err |-> "nil", drop |-> <<>>, at |-> at]

\* b.collectFragments(delim): ReadSlice until it returns without
\* ErrBufferFull; every fragment that came with ErrBufferFull is cloned
\* onto full, the last one (frag) is still a piece of b.buf.
RECURSIVE collectFragments(_, _, _, _)
collectFragments(b, src, delim, full) ==
  LET s == ReadSlice(b, src, delim)
  IN IF s.err = "ErrBufferFull"
     THEN collectFragments(s.b, s.src, delim, full \o s.res)
     ELSE [b |-> s.b, src |-> s.src, full |-> full, frag |-> s.res,
           err |-> s.err]

\* ReadBytes returned the first fragment, whatever ReadSlice said of it.
ReadBytesOnce(b, src, delim) ==
  LET c == ReadSlice(b, src, delim)
  IN [b |-> c.b, src |-> c.src, res |-> c.res, err |-> c.err, own |-> TRUE,
      at |-> 0]

\* ReadBytes returned the fragment itself, a piece of b.buf, when there was
\* only one.
ReadBytesNoCopy(b, src, delim) ==
  LET c == collectFragments(b, src, delim, <<>>)
  IN [b |-> c.b, src |-> c.src, res |-> c.full \o c.frag, err |-> c.err,
      own |-> c.full # <<>>, at |-> c.b.r - Len(c.frag)]

\* b.ReadBytes(delim): the fragments copied into a newly made slice (own:
\* the bytes returned are not a piece of b.buf).
ReadBytes(b, src, delim) ==
  LET c == collectFragments(b, src, delim, <<>>)
  IN [b |-> c.b, src |-> c.src, res |-> c.full \o c.frag, err |-> c.err,
      own |-> TRUE, at |-> 0]

\* A plausible slip: Reset rebinds and keeps what was buffered.
ReaderResetKeepsBuffer(b) == [b EXCEPT !.err = "nil"]

\* b.Reset(r): the buffer is kept, what it held is discarded and b reads from
\* the new source.
ReaderReset(b) == [b EXCEPT !.r = 0, !.w = 0, !.err = "nil"]

\* ------------------------------------------------ reader: the state machine
NoCall == [op |-> "none", arg |-> 0, res |-> <<>>, err |-> "nil"]
NoLast == [op |-> "none", arg |-> 0, res |-> <<>>, err |-> "nil", u |-> <<>>]
\* the bytes not yet consumed: those buffered, then those still in the source
Unconsumed == Window(br, RBuffered(br)) \o rsrc.data

ReaderInit ==
  /\ \E size \in 1..MaxCap : br = NewReaderSize(size)
  /\ \E str \in Sources, chunk \in {1, MaxCap} :
       rsrc = [data |-> str, chunk |-> chunk]
  /\ rlast = NoLast
  /\ rprev = NoCall

\* what a call on br leaves in rlast, and what the call after it keeps of it
Record(op, arg, c) ==
  [op |-> op, arg |-> arg, res |-> c.res, err |-> c.err, u |-> Unconsumed]
Previous == [op |-> rlast.op, arg |-> rlast.arg, res |-> rlast.res, err |-> rlast.err]

\* br.Peek(n)
DoPeek ==
  \E n \in 0..(MaxCap + 1) :
    LET c == Peek(br, rsrc, n)
    IN /\ br' = c.b
       /\ rsrc' = c.src
       /\ rlast' = Record("Peek", n, c)
       /\ rprev' = Previous
       /\ UNCHANGED <<wvars, pvars, lvars, svars, cvars, evars>>

\* br.ReadSlice(delim)
DoReadSlice ==
  \E delim \in Alphabet :
    LET c == ReadSlice(br, rsrc, delim)
    IN /\ br' = c.b
       /\ rsrc' = c.src
       /\ rlast' = Record("ReadSlice", delim, c)
       /\ rprev' = Previous
       /\ UNCHANGED <<wvars, pvars, lvars, svars, cvars, evars>>

\* br.ReadByte()
DoReadByte ==
  LET c == ReadByte(br, rsrc)
  IN /\ br' = c.b
     /\ rsrc' = c.src
     /\ rlast' = Record("ReadByte", 0, c)
     /\ rprev' = Previous
     /\ UNCHANGED <<wvars, pvars, lvars, svars, cvars, evars>>

NextR == DoPeek \/ DoReadSlice \/ DoReadByte

\* ------------------------------------------- reader: the loops of ReuseBuffer
\* The calls a loop is made of.  ReadLine is only made on a buffer of two
\* bytes or more: NewReaderSize gives none below its minimum, so that a
\* "\r\n" always fits.
LoopOps ==
  {[op |-> "ReadSlice", delim |-> d] : d \in Alphabet}
    \cup {[op |-> "ReadLine", delim |-> LF]}
    \cup {[op |-> "ReadBytes", delim |-> d] : d \in Alphabet}
LoopOpsFor(b) == {o \in LoopOps : o.op = "ReadLine" => b.size > 1}

NoRet == [res |-> <<>>, err |-> "nil", isPrefix |-> FALSE, drop |-> <<>>,
          own |-> FALSE, at |-> 0, u |-> <<>>]
NoLine == [start |-> <<>>, acc |-> <<>>, n |-> 0, closed |-> TRUE]
NoHeld == [op |-> "none", own |-> FALSE, at |-> 0, len |-> 0, orig |-> <<>>,
           later |-> FALSE, reset |-> FALSE]

LoopIdle ==
  /\ lin = <<>>
  /\ lop = [op |-> "ReadSlice", delim |-> LF]
  /\ lret = NoRet
  /\ lout = <<>>
  /\ lline = NoLine
  /\ lheld = NoHeld
  /\ lresets = 0

LoopInit ==
  /\ \E size \in 1..MaxCap : br = NewReaderSize(size)
  /\ \E str \in Sources, chunk \in {1, MaxCap} :
       /\ rsrc = [data |-> str, chunk |-> chunk]
       /\ lin = str
  /\ lop \in LoopOpsFor(br)
  /\ lret = NoRet
  /\ lout = <<>>
  /\ lline = NoLine
  /\ lheld = NoHeld
  /\ lresets = 0
  /\ rlast = NoLast
  /\ rprev = NoCall

\* the fragments of the logical line after a call returned frag; last: the
\* call ended the line
LineAfter(frag, last) ==
  IF lline.closed
  THEN [start |-> Unconsumed, acc |-> frag, n |-> 1, closed |-> last]
  ELSE [lline EXCEPT !.acc = @ \o frag, !.n = @ + 1, !.closed = last]

\* the caller keeps the first token it is given, through the calls that
\* follow
HeldAfter(c, own, at) ==
  IF lheld.op = "none"
  THEN [op |-> lop.op, own |-> own, at |-> at, len |-> Len(c.res),
        orig |-> c.res, later |-> FALSE, reset |-> FALSE]
  ELSE [lheld EXCEPT !.later = TRUE]

\* token, err := bs.ReadSlice(delim), in a loop that goes on until io.EOF
LoopReadSlice ==
  /\ lop.op = "ReadSlice" /\ lret.err # "EOF"
  /\ LET c == ReadSlice(br, rsrc, lop.delim)
     IN /\ br' = c.b
        /\ rsrc' = c.src
        /\ lret' = [res |-> c.res, err |-> c.err, isPrefix |-> FALSE,
                    drop |-> <<>>, own |-> FALSE, at |-> c.b.r - Len(c.res),
                    u |-> Unconsumed]
        /\ lout' = lout \o c.res
        /\ lline' = LineAfter(c.res, c.err # "ErrBufferFull")
        /\ lheld' = HeldAfter(c, FALSE, c.b.r - Len(c.res))
  /\ UNCHANGED <<lin, lop, lresets, rlast, rprev, wvars, pvars, svars, cvars, evars>>

\* token, isPrefix, err := bs.ReadLine(), in a loop that goes on until io.EOF
LoopReadLine ==
  /\ lop.op = "ReadLine" /\ lret.err # "EOF"
  /\ LET c == ReadLine(br, rsrc)
     IN /\ br' = c.b
        /\ rsrc' = c.src
        /\ lret' = [res |-> c.res, err |-> c.err, isPrefix |-> c.isPrefix,
                    drop |-> c.drop, own |-> FALSE, at |-> c.at,
                    u |-> Unconsumed]
        /\ lout' = lout \o c.res \o c.drop
        /\ lline' = LineAfter(c.res, ~c.isPrefix)
        /\ lheld' = HeldAfter(c, FALSE, c.at)
  /\ UNCHANGED <<lin, lop, lresets, rlast, rprev, wvars, pvars, svars, cvars, evars>>

\* token, err := bs.ReadBytes(delim), in a loop that goes on until io.EOF
LoopReadBytes ==
  /\ lop.op = "ReadBytes" /\ lret.err # "EOF"
  /\ LET c == ReadBytes(br, rsrc, lop.delim)
     IN /\ br' = c.b
        /\ rsrc' = c.src
        /\ lret' = [res |-> c.res, err |-> c.err, isPrefix |-> FALSE,
                    drop |-> <<>>, own |-> c.own, at |-> c.at,
                    u |-> Unconsumed]
        /\ lout' = lout \o c.res
        /\ lline' = LineAfter(c.res, TRUE)
        /\ lheld' = HeldAfter(c, c.own, c.at)
  /\ UNCHANGED <<lin, lop, lresets, rlast, rprev, wvars, pvars, svars, cvars, evars>>

\* str = strings.NewReader(multiLine); bs.Reset(str): after a loop has ended,
\* the same string again for a loop of ReadBytes
LoopReset ==
  /\ lresets < MaxResets
  /\ lret.err = "EOF"
  /\ br' = ReaderReset(br)
  /\ rsrc' = [rsrc EXCEPT !.data = lin]
  /\ lop' = [op |-> "ReadBytes", delim |-> lop.delim]
  /\ lret' = NoRet
  /\ lout' = <<>>
  /\ lline' = NoLine
  /\ lheld' = IF lheld.op = "none" THEN lheld
              ELSE [lheld EXCEPT !.later = TRUE, !.reset = TRUE]
  /\ lresets' = lresets + 1
  /\ UNCHANGED <<lin, rlast, rprev, wvars, pvars, svars, cvars, evars>>

NextL == LoopReadSlice \/ LoopReadLine \/ LoopReadBytes \/ LoopReset

\* ------------------------------------------------- re-use of a reader
\* the string of the source a reader is re-used on: bytes 'b' and '\n'
NewSources == UNION {SeqsOf({LF, 98}, n) : n \in 0..MaxNew}
\* the string of the source it read before
OldSources == UNION {SeqsOf(Alphabet, n) : n \in 0..MaxOld}

\* str := strings.NewReader(...); bs := bufio.NewReaderSize(str, size), and
\* the loop that reads it
ReuseInit ==
  /\ \E size \in 1..MaxCap : br = NewReaderSize(size)
  /\ \E str \in OldSources, chunk \in {1, MaxCap} :
       /\ rsrc = [data |-> str, chunk |-> chunk]
       /\ lin = str
  /\ lop \in LoopOpsFor(br)
  /\ lret = NoRet
  /\ lout = <<>>
  /\ lline = NoLine
  /\ lheld = NoHeld
  /\ lresets = 0
  /\ rlast = NoLast
  /\ rprev = NoCall

\* str = strings.NewReader(...); bs.Reset(str), at any point of the loop: the
\* loop goes on, on the new source
ReuseReset ==
  /\ lresets < MaxResets
  /\ \E str \in NewSources :
       /\ rsrc' = [rsrc EXCEPT !.data = str]
       /\ lin' = str
  /\ br' = ReaderReset(br)
  /\ lret' = NoRet
  /\ lout' = <<>>
  /\ lline' = NoLine
  /\ lheld' = IF lheld.op = "none" THEN lheld
              ELSE [lheld EXCEPT !.later = TRUE, !.reset = TRUE]
  /\ lresets' = lresets + 1
  /\ UNCHANGED <<lop, rlast, rprev, wvars, pvars, svars, cvars, evars>>


\* ========================================================== bufio.Scanner
\* '+', the separator of CustomSplit
Plus == 43
\* strings.NewReader(str) for the scanner with CustomSplit: fields of 'a'
\* separated by '+'
PlusSources == UNION {SeqsOf({Plus, 97}, n) : n \in 0..MaxSrc}

\* s.r.Read(p) with len(p) = max: the next bytes, at most chunk of them, and
\* at the end of the data the error the source ends with (io.EOF, or the
\* error of a failing source).
SourceRead(src, max) ==
  IF Len(src.data) = 0 \/ max = 0
  THEN [src |-> src, data |-> <<>>,
        err |-> IF Len(src.data) = 0 THEN src.end ELSE "nil"]
  ELSE LET n == Min(Min(max, src.chunk), Len(src.data))
       IN [src |-> [src EXCEPT !.data = Drop(@, n)], data |-> Take(src.data, n),
           err |-> "nil"]

\* A plausible slip: the last byte is dropped without a look at what it is.
dropLast(data) ==
  IF Len(data) > 0 THEN Take(data, Len(data) - 1)
  ELSE data

\* dropCR(data): data without a '\r' at its end
dropCR(data) ==
  IF Len(data) > 0 /\ data[Len(data)] = CR THEN Take(data, Len(data) - 1)
  ELSE data

\* What a split function returns: advance, token and whether there is one
\* (token # nil).  Neither of the two returns an error.
NoToken == [advance |-> 0, has |-> FALSE, token |-> <<>>]

\* ScanLines left the '\r' before the '\n' in the token.
ScanLinesKeepCR(data, atEOF) ==
  LET i == IndexByte(data, LF)
  IN IF atEOF /\ Len(data) = 0 THEN NoToken
     ELSE IF i > 0
     THEN [advance |-> i, has |-> TRUE, token |-> Take(data, i - 1)]
     ELSE IF atEOF
     THEN [advance |-> Len(data), has |-> TRUE, token |-> data]
     ELSE NoToken

\* bufio.ScanLines, the default split function
ScanLines(data, atEOF) ==
  LET i == IndexByte(data, LF)
  IN IF atEOF /\ Len(data) = 0 THEN NoToken
     ELSE IF i > 0
     THEN [advance |-> i, has |-> TRUE, token |-> dropCR(Take(data, i - 1))]
     ELSE IF atEOF
     THEN [advance |-> Len(data), has |-> TRUE, token |-> dropCR(data)]
     ELSE NoToken

\* CustomSplit: up to the first '+'; the rest at the end
CustomSplit(data, atEOF) ==
  LET i == IndexByte(data, Plus)
  IN IF atEOF /\ Len(data) = 0 THEN NoToken
     ELSE IF i > 0
     THEN [advance |-> i, has |-> TRUE, token |-> Take(data, i - 1)]
     ELSE IF atEOF
     THEN [advance |-> Len(data), has |-> TRUE, token |-> data]
     ELSE NoToken

\* the split function was never told that the input had ended
SplitNeverAtEOF(s, data, atEOF) ==
  IF s.split = "ScanLines" THEN ScanLines(data, FALSE)
  ELSE CustomSplit(data, FALSE)

\* s.split(data, atEOF)
Split(s, data, atEOF) ==
  IF s.split = "ScanLines" THEN ScanLines(data, atEOF)
  ELSE CustomSplit(data, atEOF)

\* bufio.NewScanner(r), s.Split(split), s.Buffer(nil, max)
NewScanner(split, max) ==
  [split |-> split, buf |-> <<>>, start |-> 0, end |-> 0, err |-> "nil",
   token |-> <<>>, max |-> max]

\* s.setErr(err): the first error other than io.EOF stays
setErr(s, err) ==
  IF s.err \in {"nil", "EOF"} THEN [s EXCEPT !.err = err] ELSE s

\* s.Err()
Err(s) == IF s.err = "EOF" THEN "nil" ELSE s.err

\* the shift moved start and end but not the bytes
ShiftNoCopy(s) ==
  IF s.start > 0 /\ (s.end = Len(s.buf) \/ s.start > Len(s.buf) \div 2)
  THEN [s EXCEPT !.end = s.end - s.start, !.start = 0]
  ELSE s

\* copy(s.buf, s.buf[s.start:s.end]) when there is much empty space or space
\* is needed
ShiftData(s) ==
  IF s.start > 0 /\ (s.end = Len(s.buf) \/ s.start > Len(s.buf) \div 2)
  THEN [s EXCEPT !.buf = [i \in 1..Len(s.buf) |->
                            IF i <= s.end - s.start THEN s.buf[s.start + i]
                            ELSE s.buf[i]],
                 !.end = s.end - s.start,
                 !.start = 0]
  ELSE s

\* the new buffer was twice the old one, whatever maxTokenSize is
ResizeUnbounded(s) ==
  LET newSize == IF Len(s.buf) = 0 THEN StartBufSize ELSE 2 * Len(s.buf)
  IN [s EXCEPT !.buf = [i \in 1..newSize |->
                          IF i <= s.end - s.start THEN s.buf[s.start + i]
                          ELSE 0],
               !.end = s.end - s.start,
               !.start = 0]

\* the new buffer of a full one: twice its size, startBufSize for none, at
\* most maxTokenSize
Resize(s) ==
  LET twice == IF Len(s.buf) = 0 THEN StartBufSize ELSE 2 * Len(s.buf)
      newSize == Min(twice, s.max)
  IN [s EXCEPT !.buf = [i \in 1..newSize |->
                          IF i <= s.end - s.start THEN s.buf[s.start + i]
                          ELSE 0],
               !.end = s.end - s.start,
               !.start = 0]

\* one read of the source into s.buf[s.end:]
ReadMore(s, src) ==
  LET rd == SourceRead(src, Len(s.buf) - s.end)
      n == Len(rd.data)
      got == [s EXCEPT !.buf = [i \in 1..Len(s.buf) |->
                                  IF i > s.end /\ i <= s.end + n
                                  THEN rd.data[i - s.end] ELSE s.buf[i]],
                       !.end = s.end + n]
  IN [s |-> IF rd.err # "nil" THEN setErr(got, rd.err) ELSE got, src |-> rd.src]

\* s.Scan(): a token from what the buffer holds, if the split function gives
\* one (it is asked with atEOF once an error is set); else false when an
\* error is set; else make room (shift, grow up to maxTokenSize or give up
\* with ErrTooLong), read and try again.
RECURSIVE Scan(_, _)
Scan(s, src) ==
  LET atEOF == s.err # "nil"
      try == s.end > s.start \/ atEOF
      sp == Split(s, SubSeq(s.buf, s.start + 1, s.end), atEOF)
  IN IF try /\ sp.has
     THEN [s |-> [s EXCEPT !.start = @ + sp.advance, !.token = sp.token],
           src |-> src, ok |-> TRUE]
     ELSE IF atEOF
     THEN [s |-> [s EXCEPT !.start = 0, !.end = 0, !.token = <<>>], src |-> src,
           ok |-> FALSE]
     ELSE LET s1 == ShiftData([s EXCEPT !.token = <<>>])
          IN IF s1.end = Len(s1.buf)
             THEN IF Len(s1.buf) >= s1.max
                  THEN [s |-> setErr(s1, "ErrTooLong"), src |-> src, ok |-> FALSE]
                  ELSE LET r == ReadMore(Resize(s1), src) IN Scan(r.s, r.src)
             ELSE LET r == ReadMore(s1, src) IN Scan(r.s, r.src)

\* ----------------------------------------------- scanner: the state machine
NoScan == [ok |-> FALSE, falses |-> 0, stop |-> "none", after |-> FALSE]

ScannerIdle ==
  /\ sc = NewScanner("ScanLines", MaxTokenSize)
  /\ ssrc = [data |-> <<>>, chunk |-> 1, end |-> "EOF"]
  /\ sin = <<>>
  /\ stoks = <<>>
  /\ sret = NoScan

ScannerInit ==
  /\ \E split \in {"ScanLines", "CustomSplit"}, max \in {MaxTokenSize, MaxSrc + 1} :
       /\ sc = NewScanner(split, max)
       /\ sin \in (IF split = "ScanLines" THEN Sources ELSE PlusSources)
  /\ \E chunk \in {1, MaxTokenSize}, end \in {"EOF", "EIO"} :
       ssrc = [data |-> sin, chunk |-> chunk, end |-> end]
  /\ stoks = <<>>
  /\ sret = NoScan

\* s.Scan(), and s.Text() when it returned true; the caller may go on calling
\* after a false
DoScan ==
  /\ sret.falses < MaxFalse + 1
  /\ LET c == Scan(sc, ssrc)
     IN /\ sc' = c.s
        /\ ssrc' = c.src
        /\ stoks' = IF c.ok THEN Append(stoks, c.s.token) ELSE stoks
        /\ sret' = [ok |-> c.ok,
                    falses |-> IF c.ok THEN sret.falses ELSE sret.falses + 1,
                    stop |-> IF ~c.ok /\ sret.falses = 0 THEN Err(c.s)
                             ELSE sret.stop,
                    after |-> sret.falses > 0]
  /\ UNCHANGED <<sin, wvars, pvars, rvars, lvars, cvars, evars>>

NextS == DoScan

\* ------------------------------------------------------ reader: the claims
Consuming == {"ReadSlice", "ReadByte"}
\* s and t hold the same bytes as far as both reach
AgreeOnCommon(s, t) == \A i \in 1..Min(Len(s), Len(t)) : s[i] = t[i]

\* C8: Peek(n) never advances the read cursor: after a Peek the unconsumed
\* stream is what it was before it, two Peek(n) calls in a row return the
\* same bytes, and the consuming read that follows a Peek returns the peeked
\* bytes first.
C8_PeekDoesNotAdvance ==
  /\ rlast.op = "Peek" => Unconsumed = rlast.u
  /\ (rlast.op = "Peek" /\ rprev.op = "Peek" /\ rlast.arg = rprev.arg)
       => rlast.res = rprev.res
  /\ (rprev.op = "Peek" /\ rlast.op \in Consuming)
       => /\ AgreeOnCommon(rprev.res, rlast.res)
          /\ rprev.res # <<>> => rlast.res # <<>>
\* two Peek(n) in a row after some bytes had been consumed, returning bytes
\* and leaving more behind them
C8_Witness ==
  /\ rlast.op = "Peek" /\ rprev.op = "Peek" /\ rlast.arg = rprev.arg
  /\ rlast.res # <<>>
  /\ br.r > 0
  /\ Len(Unconsumed) > Len(rlast.res)

\* C9: on a reader of capacity C with m unconsumed bytes, Peek(n) fails with
\* ErrBufferFull when n > C, whatever m is; else with io.EOF and all m bytes
\* when m < n; else it returns the first n unconsumed bytes and no error.
C9_PeekCases ==
  rlast.op = "Peek" =>
    LET n == rlast.arg
        m == Len(rlast.u)
    IN IF n > br.size
       THEN rlast.err = "ErrBufferFull"
       ELSE IF m < n
       THEN rlast.err = "EOF" /\ rlast.res = rlast.u
       ELSE rlast.err = "nil" /\ rlast.res = Take(rlast.u, n)
\* a Peek within the capacity that met the end of the source, then a Peek
\* beyond the capacity on a source shorter than the capacity
C9_Witness ==
  /\ rprev.op = "Peek" /\ rprev.arg <= br.size /\ rprev.err = "EOF"
  /\ rprev.res # <<>>
  /\ rlast.op = "Peek" /\ rlast.arg > br.size /\ rlast.err = "ErrBufferFull"
  /\ Len(rlast.u) < br.size

\* C10 as stated: whenever delim is among the unconsumed bytes ReadSlice
\* returns the bytes up to and including the first one, and whenever it is
\* not and the source has nothing more to deliver ReadSlice fails with io.EOF
\* and returns the rest.
C10_AsStated ==
  rlast.op = "ReadSlice" =>
    LET i == IndexByte(rlast.u, rlast.arg)
    IN /\ i > 0 => /\ rlast.err = "nil"
                   /\ rlast.res = Take(rlast.u, i)
                   /\ Unconsumed = Drop(rlast.u, i)
       /\ (i = 0 /\ rsrc.data = <<>>)
            => rlast.err = "EOF" /\ rlast.res = rlast.u

\* C10: on a reader of capacity C, a ReadSlice(delim) with the first delim
\* among the first C unconsumed bytes returns the bytes up to and including
\* it and advances just past it; with no delim and fewer than C unconsumed
\* bytes it fails with io.EOF and returns all of them.
C10_ReadSliceCases ==
  rlast.op = "ReadSlice" =>
    LET i == IndexByte(rlast.u, rlast.arg)
    IN /\ (i > 0 /\ i <= br.size)
            => /\ rlast.err = "nil"
               /\ rlast.res = Take(rlast.u, i)
               /\ Unconsumed = Drop(rlast.u, i)
       /\ (i = 0 /\ Len(rlast.u) < br.size)
            => /\ rlast.err = "EOF"
               /\ rlast.res = rlast.u
               /\ Unconsumed = <<>>
\* the end of "a.b.c": ReadSlice returned a two-byte token that ends in the
\* delimiter, and the next ReadSlice the last byte with io.EOF
C10_Witness ==
  /\ rprev.op = "ReadSlice" /\ rprev.err = "nil" /\ Len(rprev.res) = 2
  /\ rlast.op = "ReadSlice" /\ rlast.arg = rprev.arg
  /\ rlast.err = "EOF" /\ Len(rlast.res) = 1
  /\ br.r > 0

\* C12: on a reader of capacity C, a ReadSlice(delim) with at least C
\* unconsumed bytes and no delim among the first C of them fails with
\* ErrBufferFull, returns those C bytes and advances past them: what is left
\* unconsumed, where the next call starts, is the stream after them.
C12_BufferFullAdvances ==
  rlast.op = "ReadSlice" =>
    LET i == IndexByte(rlast.u, rlast.arg)
        full == Len(rlast.u) >= br.size /\ (i = 0 \/ i > br.size)
    IN /\ full => /\ rlast.err = "ErrBufferFull"
                  /\ rlast.res = Take(rlast.u, br.size)
                  /\ Unconsumed = Drop(rlast.u, br.size)
       /\ rlast.err = "ErrBufferFull" => full
\* two ReadSlice calls in a row that met a full buffer: the second returned
\* the bytes after those of the first
C12_Witness ==
  /\ rprev.op = "ReadSlice" /\ rprev.err = "ErrBufferFull"
  /\ rlast.op = "ReadSlice" /\ rlast.err = "ErrBufferFull"
  /\ rlast.arg = rprev.arg
  /\ Len(rlast.res) = br.size
  /\ rlast.res = Take(rlast.u, br.size)
  /\ Unconsumed # <<>>

\* C11: in a loop of ReadSlice(delim) the slices returned so far, those that
\* came with ErrBufferFull or io.EOF included, followed by what is still
\* unconsumed are the input; once the loop has met io.EOF the slices alone are
\* the input.
C11_ReadSliceReconstructs ==
  lop.op = "ReadSlice" =>
    /\ lout \o Unconsumed = lin
    /\ lret.err = "EOF" => lout = lin
\* a finished loop over an input of full length that holds the delimiter,
\* whose last piece came in fragments, the last of them with io.EOF
C11_Witness ==
  /\ lop.op = "ReadSlice" /\ lret.err = "EOF" /\ lret.res # <<>>
  /\ lline.n > 1
  /\ Len(lin) = MaxSrc /\ \E i \in 1..Len(lin) : lin[i] = lop.delim
  /\ lout = lin

\* the first line of the stream s without its "\n" or "\r\n"; all of s when
\* it holds no '\n'
LineOf(s) ==
  LET i == IndexByte(s, LF)
  IN IF i = 0 THEN s
     ELSE IF i > 1 /\ s[i - 1] = CR THEN Take(s, i - 2)
     ELSE Take(s, i - 1)

\* C13: ReadLine takes a "\n" or a "\r\n" off the end of a line and nothing
\* else: what a call drops is nothing, "\n" (then no '\r' stands before it)
\* or "\r\n", the bytes returned hold no '\n', and the lines returned so far,
\* each followed by what was dropped from it, followed by what is unconsumed,
\* are the input; at io.EOF the lines and what was dropped are the input.
C13_ReadLineStripsTerminator ==
  lop.op = "ReadLine" =>
    /\ lret.drop \in {<<>>, <<LF>>, <<CR, LF>>}
    /\ (lret.drop = <<LF>> /\ Len(lout) > 1) => lout[Len(lout) - 1] # CR
    /\ \A i \in 1..Len(lret.res) : lret.res[i] # LF
    /\ lout \o Unconsumed = lin
    /\ lret.err = "EOF" => lout = lin
\* a finished loop over an input of full length with a "\r\n" in it and a
\* '\r' that no '\n' follows
C13_Witness ==
  /\ lop.op = "ReadLine" /\ lret.err = "EOF"
  /\ Len(lin) = MaxSrc
  /\ \E i \in 1..(Len(lin) - 1) : lin[i] = CR /\ lin[i + 1] = LF
  /\ \E i \in 1..(Len(lin) - 1) : lin[i] = CR /\ lin[i + 1] # LF
  /\ lout = lin

\* C14: ReadLine sets isPrefix exactly when the buffer was full with no '\n'
\* in it (capacity or more unconsumed bytes, none of the first capacity of
\* them a '\n'); no call returns more than capacity bytes, so a longer line
\* comes in several fragments; the fragments up to the first call without
\* isPrefix are the line without its terminator, and those before it a part
\* of it.
C14_IsPrefixFragments ==
  (lop.op = "ReadLine" /\ lline.n > 0) =>
    LET i == IndexByte(lret.u, LF)
    IN /\ lret.isPrefix <=> /\ Len(lret.u) >= br.size
                            /\ i = 0 \/ i > br.size
       /\ Len(lret.res) <= br.size
       /\ lline.closed <=> ~lret.isPrefix
       /\ lline.closed => lline.acc = LineOf(lline.start)
       /\ ~lline.closed => IsPrefix(lline.acc, LineOf(lline.start))
       /\ (lline.closed /\ Len(LineOf(lline.start)) > br.size) => lline.n > 1
\* a line ended by "\r\n" whose '\r' was the last byte of a full buffer: one
\* fragment short of the capacity, then the empty rest
C14_Witness ==
  /\ lop.op = "ReadLine" /\ lline.closed /\ lline.n = 2
  /\ Len(lline.acc) = br.size - 1
  /\ lret.drop = <<CR, LF>> /\ lret.res = <<>>

\* C15: ReadBytes(delim) never fails with ErrBufferFull: it returns the
\* unconsumed bytes up to and including the first delim, or all of them with
\* io.EOF when there is none, whatever the capacity; and the fragments that
\* ReadSlice(delim) calls return until one comes without ErrBufferFull are,
\* concatenated, what ReadBytes(delim) returns at the same place of the same
\* stream, with the same error.
C15_ReadBytesUnlimited ==
  /\ (lop.op = "ReadBytes" /\ lline.n > 0) =>
       LET i == IndexByte(lret.u, lop.delim)
       IN /\ lret.err # "ErrBufferFull"
          /\ i > 0 => lret.res = Take(lret.u, i) /\ lret.err = "nil"
          /\ i = 0 => lret.res = lret.u /\ lret.err = "EOF"
  /\ (lop.op = "ReadSlice" /\ lline.n > 0 /\ lline.closed) =>
       LET c == ReadBytes(NewReaderSize(br.size),
                          [data |-> lline.start, chunk |-> rsrc.chunk],
                          lop.delim)
       IN lline.acc = c.res /\ lret.err = c.err
\* a ReadBytes that returned more bytes than the buffer holds, up to a
\* delimiter, with more behind it
C15_Witness ==
  /\ lop.op = "ReadBytes" /\ lret.err = "nil"
  /\ Len(lret.res) > br.size
  /\ lret.res[Len(lret.res)] = lop.delim
  /\ Unconsumed # <<>>

\* the bytes of the token the caller holds, as they are now: its own bytes,
\* or the piece of b.buf it was returned as
HeldValue ==
  IF lheld.own THEN lheld.orig
  ELSE SubSeq(br.buf, lheld.at + 1, lheld.at + lheld.len)

RECURSIVE Fields(_, _)
\* the pieces of s between the separators sep, the one after the last sep
\* only if it is not empty
Fields(s, sep) ==
  LET i == IndexByte(s, sep)
  IN IF s = <<>> THEN <<>>
     ELSE IF i = 0 THEN <<s>>
     ELSE <<Take(s, i - 1)>> \o Fields(Drop(s, i), sep)
\* the number of separators in s
NumSep(s, sep) == Cardinality({i \in 1..Len(s) : s[i] = sep})
\* the bytes of s after the last separator
Remainder(s, sep) ==
  IF NumSep(s, sep) = 0 THEN s
  ELSE Drop(s, CHOOSE i \in 1..Len(s) :
                 s[i] = sep /\ \A j \in (i + 1)..Len(s) : s[j] # sep)
\* the lines of s: the pieces between the '\n', each without the '\r'
\* directly before its '\n'
NaturalLines(s) ==
  [i \in 1..Len(Fields(s, LF)) |->
     IF i <= NumSep(s, LF) THEN dropCR(Fields(s, LF)[i]) ELSE Fields(s, LF)[i]]
\* the same, the last line also without a '\r' at its end when no '\n' ends it
TokenLines(s) == [i \in 1..Len(Fields(s, LF)) |-> dropCR(Fields(s, LF)[i])]

\* the scanner stopped at the end of a source that did not fail, with no error
CleanStop == sret.falses > 0 /\ sret.stop = "nil"
\* no Scan has returned false yet
Scanning == sret.falses = 0
Sep == IF sc.split = "ScanLines" THEN LF ELSE Plus

\* C17 as stated: with the default split function the tokens are the lines
\* of the input, a line being what stands between two '\n' less the '\r'
\* directly before the '\n'.
C17_AsStated ==
  (sc.split = "ScanLines" /\ CleanStop) => stoks = NaturalLines(sin)

\* C17: with the default split function no token holds a '\n'; the tokens
\* are, in order, the lines of the input without their "\n" or "\r\n", the
\* last line, when no '\n' ends it, also without a '\r' at its end.
C17_ScanLinesTokens ==
  sc.split = "ScanLines" =>
    /\ \A k \in 1..Len(stoks) : \A i \in 1..Len(stoks[k]) : stoks[k][i] # LF
    /\ Scanning => IsPrefix(stoks, TokenLines(sin))
    /\ CleanStop => stoks = TokenLines(sin)
\* the scanner has stopped cleanly on an input with a "\r\n" inside that
\* ends in a line without '\n': two tokens or more
C17_Witness ==
  /\ sc.split = "ScanLines" /\ CleanStop
  /\ \E i \in 1..(Len(sin) - 1) : sin[i] = CR /\ sin[i + 1] = LF
  /\ sin[Len(sin)] = 97
  /\ Len(stoks) > 1
  /\ stoks[1] # <<>>

\* C18: when the scanner stops at the end of its source without error, a
\* rest of the input after the last separator that is not empty has been
\* emitted as the last token, and there is one token for each separator and
\* one for that rest: none for an empty rest; the Scan calls from the stop on
\* return false, and Err() is nil.  A source that ends with io.EOF leaves no
\* other error than that of a token too long.
C18_EndOfStream ==
  /\ CleanStop =>
       LET rest == Remainder(sin, Sep)
       IN /\ rest # <<>> =>
               /\ stoks # <<>>
               /\ stoks[Len(stoks)] =
                    (IF sc.split = "ScanLines" THEN dropCR(rest) ELSE rest)
          /\ Len(stoks) = NumSep(sin, Sep) + (IF rest # <<>> THEN 1 ELSE 0)
          /\ ~sret.ok
          /\ Err(sc) = "nil"
  /\ (sret.falses > 0 /\ ssrc.end = "EOF") => sret.stop \in {"nil", "ErrTooLong"}
\* a clean stop after a last token that no separator ended, and a Scan call
\* after the one that returned false
C18_Witness ==
  /\ CleanStop /\ sret.after
  /\ NumSep(sin, Sep) > 0
  /\ Remainder(sin, Sep) # <<>>
  /\ stoks[Len(stoks)] = Remainder(sin, Sep)

\* C19 as stated: the buffer never grows beyond the maximum; once Scan has
\* returned false with Err() a token too long or an error of the source, no
\* later Scan returns true and Err() stays.
C19_AsStated ==
  /\ Len(sc.buf) <= sc.max
  /\ (sret.after /\ sret.stop \in {"ErrTooLong", "EIO"}) =>
       ~sret.ok /\ Err(sc) = sret.stop
  /\ (sret.falses > 0 /\ ssrc.end = "EIO") => sret.stop \in {"EIO", "ErrTooLong"}

\* the sum of the lengths of the tokens
RECURSIVE SumLen(_)
SumLen(toks) == IF toks = <<>> THEN 0 ELSE Len(Head(toks)) + SumLen(Tail(toks))
\* the bytes the scanner has advanced over
Advanced == Len(sin) - Len(ssrc.data) - (sc.end - sc.start)

\* C20: with CustomSplit the tokens are, in order, the fields of the input
\* between the '+', without them; the scanner advances over each token and
\* the '+' after it, over nothing else; a split that asks for more data gives
\* no token.
C20_CustomSplitFields ==
  sc.split = "CustomSplit" =>
    /\ Scanning => /\ IsPrefix(stoks, Fields(sin, Plus))
                   /\ sc.err = "nil" =>
                        Advanced = SumLen(stoks) + Len(stoks)
    /\ CleanStop => stoks = Fields(sin, Plus)
\* "a+a+a" read one byte at a time
C20_Witness ==
  /\ sc.split = "CustomSplit" /\ CleanStop
  /\ ssrc.chunk = 1
  /\ sin = <<97, Plus, 97, Plus, 97>>
  /\ stoks = <<<<97>>, <<97>>, <<97>>>>

\* ------------------------- io.MultiReader, io.MultiWriter, io.TeeReader
\* A source of the combinators: id (its place in the argument list), data (the
\* bytes not yet read), chunk (most bytes per Read), eager (the last bytes come
\* together with the final error, as io.Reader allows), end (io.EOF, or the
\* error of a failing source).
\* r.Read(p) with len(p) = max
ReaderRead(src, max) ==
  IF Len(src.data) = 0
  THEN [src |-> src, data |-> <<>>, err |-> src.end]
  ELSE LET n == Min(Min(max, src.chunk), Len(src.data))
       IN [src  |-> [src EXCEPT !.data = Drop(@, n)],
           data |-> Take(src.data, n),
           err  |-> IF src.eager /\ n = Len(src.data) THEN src.end ELSE "nil"]

\* A sink that breaks the io.Writer contract: it accepts k bytes and reports
\* no error.
SinkWriteShort(ss, wr, p, k) == [SinkWrite(ss, wr, p, FALSE, k) EXCEPT !.err = "nil"]

\* one entry of clog
Call(id, n, err) == [id |-> id, n |-> n, err |-> err]

\* io.MultiReader(readers...)
MultiReader(readers) == [readers |-> readers]

\* A plausible slip: the io.EOF of a source that is not the last one is passed
\* on to the caller.
RECURSIVE MultiReadEOFEarly(_, _, _)
MultiReadEOFEarly(m, size, log) ==
  IF Len(m.readers) = 0
  THEN [mr |-> m, data |-> <<>>, err |-> "EOF", log |-> log]
  ELSE LET r    == ReaderRead(Head(m.readers), size)
           rest == IF r.err = "EOF" THEN Tail(m.readers)
                   ELSE <<r.src>> \o Tail(m.readers)
           log2 == Append(log, Call(Head(m.readers).id, Len(r.data), r.err))
       IN IF Len(r.data) > 0 \/ r.err # "EOF"
          THEN [mr |-> [m EXCEPT !.readers = rest], data |-> r.data,
                err |-> r.err, log |-> log2]
          ELSE MultiReadEOFEarly([m EXCEPT !.readers = rest], size, log2)

\* (mr *multiReader).Read(p) with len(p) = size: read the first remaining
\* source; on io.EOF drop it; return unless it gave nothing but io.EOF, and
\* hide an io.EOF while sources remain.  log collects the source calls.
RECURSIVE MultiRead(_, _, _)
MultiRead(m, size, log) ==
  IF Len(m.readers) = 0
  THEN [mr |-> m, data |-> <<>>, err |-> "EOF", log |-> log]
  ELSE LET r    == ReaderRead(Head(m.readers), size)
           rest == IF r.err = "EOF" THEN Tail(m.readers)
                   ELSE <<r.src>> \o Tail(m.readers)
           log2 == Append(log, Call(Head(m.readers).id, Len(r.data), r.err))
       IN IF Len(r.data) > 0 \/ r.err # "EOF"
          THEN [mr |-> [m EXCEPT !.readers = rest], data |-> r.data,
                err |-> IF r.err = "EOF" /\ Len(rest) > 0 THEN "nil" ELSE r.err,
                log |-> log2]
          ELSE MultiRead([m EXCEPT !.readers = rest], size, log2)

\* io.MultiWriter(writers...)
MultiWriter(writers) == [writers |-> writers]

\* What the i-th sink of a call does: the sink numbered bad misbehaves, by
\* failing after k bytes (how = "err") or by a short count (how = "short").
SinkCall(ss, wr, p, i, bad, how, k) ==
  IF i # bad THEN SinkWrite(ss, wr, p, TRUE, 0)
  ELSE IF how = "err" THEN SinkWrite(ss, wr, p, FALSE, k)
  ELSE SinkWriteShort(ss, wr, p, k)

\* A plausible slip: the loop goes on after a sink has failed and reports the
\* failure at the end.
RECURSIVE MultiWriteGoesOn(_, _, _, _, _, _, _, _)
MultiWriteGoesOn(t, ss, p, i, bad, how, k, log) ==
  IF i > Len(t.writers)
  THEN IF bad \in 1..Len(t.writers) /\ how = "err"
       THEN [sinks |-> ss, n |-> Min(k, Len(p)), err |-> "EIO", log |-> log]
       ELSE [sinks |-> ss, n |-> Len(p), err |-> "nil", log |-> log]
  ELSE LET r == SinkCall(ss, t.writers[i], p, i, bad, how, k)
       IN MultiWriteGoesOn(t, r.sinks, p, i + 1, bad, how, k,
                           Append(log, Call(t.writers[i], r.n, r.err)))

\* A plausible slip: the sinks are written from the last to the first.
RECURSIVE MultiWriteBackwards(_, _, _, _, _, _, _, _)
MultiWriteBackwards(t, ss, p, i, bad, how, k, log) ==
  IF i > Len(t.writers)
  THEN [sinks |-> ss, n |-> Len(p), err |-> "nil", log |-> log]
  ELSE LET j    == Len(t.writers) + 1 - i
           r    == SinkCall(ss, t.writers[j], p, j, bad, how, k)
           log2 == Append(log, Call(t.writers[j], r.n, r.err))
       IN IF r.err # "nil"
          THEN [sinks |-> r.sinks, n |-> r.n, err |-> r.err, log |-> log2]
          ELSE IF r.n # Len(p)
          THEN [sinks |-> r.sinks, n |-> r.n, err |-> "ErrShortWrite", log |-> log2]
          ELSE MultiWriteBackwards(t, r.sinks, p, i + 1, bad, how, k, log2)

\* (t *multiWriter).Write(p), from the i-th sink on: each sink in list order
\* gets p; the first error, or the first short count, ends the call.
RECURSIVE MultiWrite(_, _, _, _, _, _, _, _)
MultiWrite(t, ss, p, i, bad, how, k, log) ==
  IF i > Len(t.writers)
  THEN [sinks |-> ss, n |-> Len(p), err |-> "nil", log |-> log]
  ELSE LET r    == SinkCall(ss, t.writers[i], p, i, bad, how, k)
           log2 == Append(log, Call(t.writers[i], r.n, r.err))
       IN IF r.err # "nil"
          THEN [sinks |-> r.sinks, n |-> r.n, err |-> r.err, log |-> log2]
          ELSE IF r.n # Len(p)
          THEN [sinks |-> r.sinks, n |-> r.n, err |-> "ErrShortWrite", log |-> log2]
          ELSE MultiWrite(t, r.sinks, p, i + 1, bad, how, k, log2)

\* io.TeeReader(r, w)
TeeReader(r, w) == [r |-> r, w |-> w]

\* A plausible slip: the side sink is written only when the read filled p.
TeeReadFullOnly(t, ss, size, ok, k) ==
  LET r  == ReaderRead(t.r, size)
      t2 == [t EXCEPT !.r = r.src]
  IN IF Len(r.data) = size
     THEN LET w == SinkWrite(ss, t.w, r.data, ok, k)
          IN IF w.err # "nil"
             THEN [tee |-> t2, sinks |-> w.sinks, data |-> Take(r.data, w.n),
                   err |-> w.err, got |-> Len(r.data), sinkerr |-> TRUE]
             ELSE [tee |-> t2, sinks |-> w.sinks, data |-> r.data,
                   err |-> r.err, got |-> Len(r.data), sinkerr |-> FALSE]
     ELSE [tee |-> t2, sinks |-> ss, data |-> r.data, err |-> r.err,
           got |-> Len(r.data), sinkerr |-> FALSE]

\* A plausible slip: the error of the side sink is dropped.
TeeReadIgnoresSink(t, ss, size, ok, k) ==
  LET r  == ReaderRead(t.r, size)
      t2 == [t EXCEPT !.r = r.src]
  IN IF Len(r.data) > 0
     THEN LET w == SinkWrite(ss, t.w, r.data, ok, k)
          IN [tee |-> t2, sinks |-> w.sinks, data |-> r.data,
              err |-> r.err, got |-> Len(r.data), sinkerr |-> w.err # "nil"]
     ELSE [tee |-> t2, sinks |-> ss, data |-> r.data, err |-> r.err,
           got |-> Len(r.data), sinkerr |-> FALSE]

\* (t *teeReader).Read(p) with len(p) = size: read the source, write what was
\* read to the side sink, and on a failure of the sink return its count and
\* its error.  got is the number of bytes the source gave.
TeeRead(t, ss, size, ok, k) ==
  LET r  == ReaderRead(t.r, size)
      t2 == [t EXCEPT !.r = r.src]
  IN IF Len(r.data) > 0
     THEN LET w == SinkWrite(ss, t.w, r.data, ok, k)
          IN IF w.err # "nil"
             THEN [tee |-> t2, sinks |-> w.sinks, data |-> Take(r.data, w.n),
                   err |-> w.err, got |-> Len(r.data), sinkerr |-> TRUE]
             ELSE [tee |-> t2, sinks |-> w.sinks, data |-> r.data,
                   err |-> r.err, got |-> Len(r.data), sinkerr |-> FALSE]
     ELSE [tee |-> t2, sinks |-> ss, data |-> r.data, err |-> r.err,
           got |-> Len(r.data), sinkerr |-> FALSE]

\* ------------------------------------------ combinators: the state machine
RECURSIVE Concat(_)
Concat(ss) == IF Len(ss) = 0 THEN <<>> ELSE Head(ss) \o Concat(Tail(ss))

\* strings.NewReader for the id-th source, of len bytes; the bytes of the
\* sources are numbered so that no two are alike
NewSource(id, len, chunk, eager, end) ==
  [id |-> id, data |-> Payload(10 * id + 1, len), chunk |-> chunk,
   eager |-> eager, end |-> end]

NoSource == NewSource(1, 0, 1, FALSE, "EOF")
NoCombRet == [n |-> 0, err |-> "nil", log |-> <<>>, got |-> 0, sinkerr |-> FALSE,
              p |-> <<>>, before |-> <<>>]

CombUnused ==
  /\ mr = MultiReader(<<>>)
  /\ mw = MultiWriter(<<>>)
  /\ tee = TeeReader(NoSource, 1)
  /\ csinks = <<>>
  /\ clog = <<>>
  /\ cin = <<>>
  /\ cout = <<>>
  /\ cret = NoCombRet

CombIdle == cmode = "none" /\ CombUnused

\* r := io.MultiReader(r1, r2, r3)
MultiReaderInit ==
  /\ cmode = "MultiReader"
  /\ \E n \in 1..MaxReaders, chunk \in 1..MaxMsg, eager \in BOOLEAN :
       \E lens \in [1..n -> 0..MaxPart], bad \in 0..n :
         mr = MultiReader([i \in 1..n |->
                NewSource(i, lens[i], chunk, eager,
                          IF i = bad THEN "ErrUnexpectedEOF" ELSE "EOF")])
  /\ cin = [i \in 1..Len(mr.readers) |-> mr.readers[i].data]
  /\ mw = MultiWriter(<<>>)
  /\ tee = TeeReader(NoSource, 1)
  /\ csinks = <<>>
  /\ clog = <<>>
  /\ cout = <<>>
  /\ cret = NoCombRet

\* mw := io.MultiWriter(&buf1, &buf2)
MultiWriterInit ==
  /\ cmode = "MultiWriter"
  /\ \E n \in 1..MaxWriters :
       /\ mw = MultiWriter([i \in 1..n |-> i])
       /\ csinks = [i \in 1..n |-> NoSink]
  /\ mr = MultiReader(<<>>)
  /\ tee = TeeReader(NoSource, 1)
  /\ clog = <<>>
  /\ cin = <<>>
  /\ cout = <<>>
  /\ cret = NoCombRet

\* teeReader := io.TeeReader(data, logs)
TeeReaderInit ==
  /\ cmode = "TeeReader"
  /\ \E len \in 0..MaxSrc, chunk \in 1..MaxMsg, eager \in BOOLEAN,
        end \in {"EOF", "ErrUnexpectedEOF"} :
       tee = TeeReader(NewSource(1, len, chunk, eager, end), 1)
  /\ cin = tee.r.data
  /\ csinks = <<NoSink>>
  /\ mr = MultiReader(<<>>)
  /\ mw = MultiWriter(<<>>)
  /\ clog = <<>>
  /\ cout = <<>>
  /\ cret = NoCombRet

CombInit == MultiReaderInit \/ MultiWriterInit \/ TeeReaderInit

\* one Read of the loop of io.ReadAll(mr) or io.Copy(os.Stdout, r)
DoMultiRead ==
  /\ cmode = "MultiReader"
  /\ cret.err = "nil"
  /\ \E size \in 1..MaxMsg :
       LET r == MultiRead(mr, size, <<>>)
       IN /\ mr' = r.mr
          /\ clog' = clog \o r.log
          /\ cout' = cout \o r.data
          /\ cret' = [NoCombRet EXCEPT !.n = Len(r.data), !.err = r.err,
                                       !.log = r.log]
  /\ UNCHANGED <<mw, tee, csinks, cin, cmode>>
  /\ UNCHANGED <<wvars, pvars, rvars, lvars, svars, evars>>

\* mw.Write(p), as fmt.Fprintln(mb, ...) or io.Copy(mw, r) makes it
DoMultiWrite ==
  /\ cmode = "MultiWriter"
  /\ Len(cout) < MaxWrites
  /\ \E len \in 0..MaxMsg, bad \in 0..Len(mw.writers), how \in {"err", "short"},
        k \in ShortCounts :
       LET p == Payload(Len(cin) + 1, len)
           r == MultiWrite(mw, csinks, p, 1, bad, how, k, <<>>)
       IN /\ csinks' = r.sinks
          /\ clog' = clog \o r.log
          /\ cin' = cin \o p
          /\ cout' = Append(cout, len)
          /\ cret' = [NoCombRet EXCEPT !.n = r.n, !.err = r.err, !.log = r.log,
                                       !.p = p, !.before = csinks]
  /\ UNCHANGED <<mr, mw, tee, cmode>>
  /\ UNCHANGED <<wvars, pvars, rvars, lvars, svars, evars>>

\* one Read of the loop of io.Copy(os.Stdout, teeReader)
DoTeeRead ==
  /\ cmode = "TeeReader"
  /\ cret.err \in {"nil", "EIO"}
  /\ \E size \in 1..MaxMsg, ok \in BOOLEAN, k \in ShortCounts :
       LET r == TeeRead(tee, csinks, size, ok, k)
       IN /\ tee' = r.tee
          /\ csinks' = r.sinks
          /\ cout' = cout \o r.data
          /\ cret' = [NoCombRet EXCEPT !.n = Len(r.data), !.err = r.err,
                                       !.got = r.got, !.sinkerr = r.sinkerr,
                                       !.before = tee.r.data]
  /\ UNCHANGED <<mr, mw, clog, cin, cmode>>
  /\ UNCHANGED <<wvars, pvars, rvars, lvars, svars, evars>>

NextC == DoMultiRead \/ DoMultiWrite \/ DoTeeRead

\* ------------------------------------------------- claims: combinators
\* the source calls of clog before the k-th that were made on source j and
\* reported io.EOF
ReportedEOF(j, k) == \E h \in 1..(k - 1) : clog[h].id = j /\ clog[h].err = "EOF"

\* C21: reading a multi-reader yields the bytes of its sources in list order,
\* whatever the sizes of the reads: what has been returned is always a prefix
\* of the concatenation, and all of it once io.EOF is returned; no source is
\* read before every source ahead of it has reported io.EOF; and io.EOF is
\* returned only when every source has reported it.
C21_SequentialMultiSource ==
  cmode = "MultiReader" =>
    /\ IsPrefix(cout, Concat(cin))
    /\ \A k \in 1..Len(clog) : \A j \in 1..(clog[k].id - 1) : ReportedEOF(j, k)
    /\ cret.err = "EOF" =>
         /\ cout = Concat(cin)
         /\ mr.readers = <<>>
         /\ \A j \in 1..Len(cin) : ReportedEOF(j, Len(clog) + 1)

\* three non-empty sources read to io.EOF, one read spanning less than a source
C21_Witness ==
  /\ cmode = "MultiReader"
  /\ cret.err = "EOF"
  /\ Len(cin) = MaxReaders
  /\ \A j \in 1..Len(cin) : Len(cin[j]) = MaxPart
  /\ \E k \in 1..Len(clog) : clog[k].n = 1
  /\ cout = Concat(cin)

\* no sink call so far reported an error or a short count
NoSinkFailed ==
  /\ \A k \in 1..Len(clog) : clog[k].err = "nil"
  /\ \A i \in 1..Len(csinks) : csinks[i].got = Concat(csinks[i].log)

\* C22: while no sink fails, after any sequence of writes to a multi-writer
\* every sink holds the same bytes, the concatenation of all the writes, and
\* each call has written the sinks in list order.
C22_FanOut ==
  (cmode = "MultiWriter" /\ NoSinkFailed) =>
    /\ \A i \in 1..Len(csinks) : csinks[i].got = cin
    /\ \A i \in 1..Len(csinks) : Len(csinks[i].log) = Len(cout)
    /\ Len(clog) = Len(cout) * Len(mw.writers)
    /\ \A k \in 1..Len(clog) :
         clog[k].id = mw.writers[((k - 1) % Len(mw.writers)) + 1]
    /\ Len(cout) > 0 => cret.n = Len(cret.p) /\ cret.err = "nil"

\* MaxWrites non-empty writes on MaxWriters sinks, none of which failed
C22_Witness ==
  /\ cmode = "MultiWriter"
  /\ NoSinkFailed
  /\ Len(mw.writers) = MaxWriters
  /\ Len(cout) = MaxWrites
  /\ \A c \in 1..Len(cout) : cout[c] > 0

\* the sink calls of the last Write that reported an error
FailedCalls == {h \in 1..Len(cret.log) : cret.log[h].err # "nil"}

\* C23: when sink j fails during a Write on a multi-writer the call ends at
\* once with that sink's error: the sinks before j have been given the bytes of
\* the call, the sinks after j have not been called.
C23_FanOutError ==
  (cmode = "MultiWriter" /\ FailedCalls # {}) =>
    LET j == CHOOSE h \in FailedCalls : \A g \in FailedCalls : h <= g
    IN /\ Len(cret.log) = j
       /\ \A h \in 1..j : cret.log[h].id = mw.writers[h]
       /\ cret.err = cret.log[j].err
       /\ cret.n = cret.log[j].n
       /\ \A i \in 1..(j - 1) :
            /\ csinks[mw.writers[i]].log = Append(cret.before[mw.writers[i]].log, cret.p)
            /\ csinks[mw.writers[i]].got = cret.before[mw.writers[i]].got \o cret.p
       /\ csinks[mw.writers[j]].log = Append(cret.before[mw.writers[j]].log, cret.p)
       /\ \A i \in (j + 1)..Len(mw.writers) :
            csinks[mw.writers[i]] = cret.before[mw.writers[i]]

\* the second of three sinks fails on a write of two bytes, after an earlier
\* write that succeeded
C23_Witness ==
  /\ cmode = "MultiWriter"
  /\ Len(mw.writers) = 3
  /\ FailedCalls = {2}
  /\ Len(cret.p) = 2
  /\ Len(cout) = 2
  /\ cret.before[1].got # <<>>

\* the bytes the source gave that were returned to nobody
TeeLost == Len(cin) - Len(tee.r.data) - Len(cout)

\* C24: at the return of every Read on a tee reader that did not fail, the
\* side sink holds exactly the bytes returned to the consumer so far.
C24_TeeMirrors ==
  (cmode = "TeeReader" /\ cret.err \in {"nil", "EOF"}) =>
    /\ csinks[tee.w].got = cout
    /\ (cret.err = "EOF" /\ TeeLost = 0) => cout = cin

\* a source of MaxSrc bytes copied to its end, by reads of which one was short
C24_Witness ==
  /\ cmode = "TeeReader"
  /\ cret.err = "EOF"
  /\ Len(cin) = MaxSrc
  /\ cout = cin
  /\ \E h \in 1..Len(csinks[tee.w].log) : Len(csinks[tee.w].log[h]) = 1
  /\ csinks[tee.w].got = cin

\* C25: when the side sink fails during a Read on a tee reader the Read
\* returns the sink's error, and the source has advanced past all the bytes it
\* gave to that Read: the reads that follow return only bytes that come after
\* them, so bytes the sink did not accept are delivered to nobody.
C25_TeeSinkError ==
  cmode = "TeeReader" =>
    /\ cret.sinkerr =>
         /\ cret.err = "EIO"
         /\ cret.got > 0
         /\ cret.n <= cret.got
         /\ tee.r.data = Drop(cret.before, cret.got)
    /\ cret.before # <<>> =>
         /\ Take(cret.before, cret.n) = SubSeq(cout, Len(cout) - cret.n + 1, Len(cout))
         /\ tee.r.data = Drop(cret.before, cret.got)
    /\ tee.r.data = Drop(cin, Len(cin) - Len(tee.r.data))
    /\ \A i, j \in 1..Len(cout) : i < j => cout[i] < cout[j]
    /\ \A i \in 1..Len(cout), j \in 1..Len(tee.r.data) : cout[i] < tee.r.data[j]

\* a Read that returned bytes after a Read in which the sink failed and bytes
\* were lost
C25_Witness ==
  /\ cmode = "TeeReader"
  /\ TeeLost > 0
  /\ ~cret.sinkerr
  /\ cret.n > 0
  /\ Len(cout) > cret.n

\* ------------------------------------------- claims: bufio.Writer, continued
\* the last call was of kind op and no error was pending when it was made
LastWas(op) == whist # <<>> /\ LastW.op = op /\ wprev.bw.err = "nil"
\* the sinks the writer was not bound to during the last call are as before
OtherSinksUntouched ==
  \A i \in 1..NSinks : i # wprev.bw.wr => sinks[i] = wprev.sinks[i]
\* the sink calls the last call made on the sink the writer was bound to
CallsOnBound == Drop(sinks[wprev.bw.wr].log, Len(wprev.sinks[wprev.bw.wr].log))

\* C26: a Flush with bytes in the buffer makes exactly one sink call, which
\* carries all of them, and when the sink takes them the buffer is empty
\* afterwards; a Flush with an empty buffer makes no sink call; so a Flush made
\* directly after a Flush changes nothing.
C26_Flush ==
  /\ (LastWas("Flush") /\ wprev.bw.buf # <<>>) =>
       /\ CallsOnBound = <<wprev.bw.buf>>
       /\ OtherSinksUntouched
       /\ wret.err = "nil" =>
            /\ bw.buf = <<>>
            /\ sinks[bw.wr].got = wprev.sinks[bw.wr].got \o wprev.bw.buf
  /\ (LastWas("Flush") /\ wprev.bw.buf = <<>>) =>
       /\ sinks = wprev.sinks
       /\ bw = wprev.bw
       /\ wret.err = "nil"
  /\ (Len(whist) >= 2 /\ LastW.op = "Flush" /\ whist[Len(whist) - 1].op = "Flush") =>
       /\ sinks = wprev.sinks
       /\ bw = wprev.bw

\* a Write that filled the buffer, a Flush that emptied it, a second Flush
C26_Witness ==
  /\ bw.size = MaxCap
  /\ Len(whist) = 3
  /\ whist[1] = [op |-> "Write", len |-> MaxCap]
  /\ whist[2].op = "Flush"
  /\ whist[3].op = "Flush"
  /\ bw.err = "nil"
  /\ bw.buf = <<>>
  /\ sinks[bw.wr].log = <<Payload(1, MaxCap)>>

\* ------------------------------------------------------- claims: Reset
\* the bytes handed to the writer up to and including its h-th call
RECURSIVE WrittenBy(_)
WrittenBy(h) ==
  IF h = 0 THEN 0
  ELSE WrittenBy(h - 1) + (IF whist[h].op = "Write" THEN whist[h].len ELSE 0)
\* the Reset calls among the calls made on the writer
Resets == {h \in 1..Len(whist) : whist[h].op = "Reset"}

\* C27, the writer: a byte that was buffered when Reset was called never gets
\* into any sink, the old one or the new one, and the bytes written after the
\* last Reset are given only to the sink it bound.
C27_WriterReset ==
  /\ \A h \in Resets : \A i \in 1..NSinks :
       \A x \in 1..Len(sinks[i].got) : \A y \in 1..Len(whist[h].lost) :
         sinks[i].got[x] # whist[h].lost[y]
  /\ \A h \in Resets :
       (\A g \in Resets : g <= h) =>
         /\ bw.wr = whist[h].len
         /\ \A i \in 1..NSinks : i # bw.wr =>
              \A c \in 1..Len(sinks[i].log) : \A x \in 1..Len(sinks[i].log[c]) :
                sinks[i].log[c][x] <= WrittenBy(h)
  /\ LastWas("Reset") => (sinks = wprev.sinks /\ bw.buf = <<>>)

\* C27, the reader: after Reset no byte buffered from the old source is
\* returned: what the reads have returned since, followed by what is still
\* to be read, is the new source.
C27_ReaderReset ==
  lresets > 0 =>
    /\ lout \o Unconsumed = lin
    /\ \A x \in 1..Len(lout) : lout[x] \in {LF, 98}

\* C27: Reset discards what is buffered and rebinds, on a buffered writer and
\* on a buffered reader.
C27_Reset == C27_WriterReset /\ C27_ReaderReset

\* bytes were buffered when the writer was rebound from the first sink to the
\* second, and a Write and a Flush after it have reached the second sink
C27_Witness ==
  /\ Len(whist) = 4
  /\ whist[1].op = "Write"
  /\ whist[2].op = "Reset" /\ whist[2].len = 2 /\ whist[2].lost # <<>>
  /\ whist[3].op = "Write"
  /\ whist[4].op = "Flush"
  /\ sinks[1].log = <<>>
  /\ sinks[2].got = Payload(WrittenBy(2) + 1, whist[3].len)
  /\ whist[3].len > 0

\* the reader was reset while the caller held a token it had returned, and
\* all of the new source has been returned since
C27_ReaderWitness ==
  /\ lresets > 0
  /\ lheld.reset
  /\ Len(lout) = MaxNew
  /\ Len(lin) = MaxNew

\* ------------------------------------------- claims: a failing sink
\* the sink failed during the last call, a Write or a Flush
SinkFailed ==
  /\ whist # <<>> /\ LastW.op \in {"Write", "Flush"}
  /\ wprev.bw.err = "nil" /\ wret.err # "nil"

PlainWrite ==
  /\ LastWas("Write") /\ wret.err = "nil" /\ LastW.len > 0
\* the room the buffer had before the last call
RoomBefore == wprev.bw.size - Len(wprev.bw.buf)

Producer == 1

TunnelInit ==
  /\ PipeInit
  /\ cmode \in {"PipeClose", "PipeNoClose"}
  /\ CombUnused

\* fmt.Fprintln(w, ...): the producer calls w.Write
TunnelWrite ==
  /\ ~pipe.done
  /\ PWriteCall(Producer)

TunnelLock == PWriteLock(Producer)

TunnelHandoff == PHandoff(Producer)

TunnelAck == PAck(Producer)

\* the deferred w.Close(), when the producer has returned from its writes
TunnelClose ==
  /\ cmode = "PipeClose"
  /\ ptw[Producer].pc = "idle"
  /\ ~pipe.done
  /\ pipe' = closeWrite(pipe, "nil")
  /\ UNCHANGED <<ptw, ptr, pwret, prret, psent, prcvd, pcalls, pwfail>>
  /\ UNCHANGED <<wvars, rvars, lvars, svars, cvars, evars>>

\* io.ReadAll(r): one r.Read(b[len(b):cap(b)]), never with an empty buffer;
\* the reads go on until one returns an error
ReadAllCall ==
  /\ prret.err = "nil"
  /\ ptr.pc = "idle"
  /\ \E size \in 1..MaxMsg :
       IF pipe.done
       THEN /\ prret' = [data |-> <<>>, err |-> readCloseError(pipe),
                         at |-> "idle", werr |-> pipe.werr, rerr |-> pipe.rerr]
            /\ UNCHANGED ptr
       ELSE /\ ptr' = [pc |-> "recv", size |-> size, data |-> <<>>]
            /\ UNCHANGED prret
  /\ UNCHANGED <<pipe, ptw, pwret, psent, prcvd, pcalls, pwfail>>
  /\ UNCHANGED <<wvars, rvars, lvars, svars, cvars, evars>>

ReadAllWoken == PReadClosed

NextN ==
  \/ TunnelWrite
  \/ TunnelLock
  \/ TunnelHandoff
  \/ TunnelAck
  \/ TunnelClose
  \/ ReadAllCall
  \/ ReadAllWoken

\* The scheduler runs every task that can take a step: a task that has called
\* Write or Read goes on, the deferred Close runs once the producer returns,
\* and ReadAll calls Read again.  Whether the producer makes another Write is
\* up to the producer.
FairN ==
  /\ WF_vars(TunnelLock)
  /\ WF_vars(TunnelHandoff)
  /\ WF_vars(TunnelAck)
  /\ WF_vars(TunnelClose)
  /\ WF_vars(ReadAllCall)
  /\ WF_vars(ReadAllWoken)

\* ------------------------------------------------- claims: the data tunnel
\* io.ReadAll has returned
ReadAllReturned == prret.err # "nil"
\* the consumer waits in Read and nothing has closed the pipe
ConsumerBlocked == ptr.pc = "recv" /\ ~pipe.done

\* C29: the consumer that reads the pipe until end-of-stream terminates
\* exactly when the write end is closed.  When the producer closes after its
\* writes, io.ReadAll returns in the end, and it returns only after the close,
\* on io.EOF, with exactly the bytes written.  When the producer never closes,
\* io.ReadAll never returns: from some point on the consumer is blocked in
\* Read for ever, with every byte written already received.
C29_TerminatesIffClosed ==
  /\ (cmode = "PipeClose") => <>ReadAllReturned
  /\ [](ReadAllReturned => (pipe.done /\ prret.err = "EOF" /\ prcvd = psent))
  /\ (cmode = "PipeNoClose") =>
       ([]~ReadAllReturned /\ <>[](ConsumerBlocked /\ prcvd = psent))

\* the producer made MaxCalls writes, the last of MaxMsg bytes, and closed;
\* ReadAll has returned all the bytes, of which one Read took a part
C29_Witness ==
  /\ cmode = "PipeClose"
  /\ ReadAllReturned
  /\ pcalls = MaxCalls
  /\ pwret.len = MaxMsg
  /\ Len(psent) > MaxMsg
  /\ prcvd = psent

\* ---------------------------------------------------------------- C32
\* the calls so far are Writes closed by one Flush, on the first sink
WritesThenFlush ==
  /\ Len(whist) > 1
  /\ whist[Len(whist)].op = "Flush"
  /\ \A h \in 1..(Len(whist) - 1) : whist[h].op = "Write"
\* no call on a sink has failed or come up short
SinkNeverFailed ==
  /\ bw.err = "nil"
  /\ \A i \in 1..NSinks : sinks[i].got = Concat(sinks[i].log)

\* C32: whatever the capacity and the sizes of the Writes, over a sink that
\* never fails, after the Writes and one Flush the sink calls, concatenated in
\* order, are the bytes written, in call order: nothing lost, duplicated or
\* reordered, and nothing left in the buffer.
C32_NothingLostOrReordered ==
  (WritesThenFlush /\ SinkNeverFailed) =>
    /\ Concat(sinks[bw.wr].log) = Payload(1, wnext - 1)
    /\ sinks[bw.wr].got = Payload(1, wnext - 1)
    /\ Buffered(bw) = 0

\* a partly filled buffer, then a Write larger than the space left but not
\* larger than the capacity, then the Flush: two sink calls
C32_Witness ==
  /\ WritesThenFlush /\ SinkNeverFailed
  /\ bw.size = MaxCap
  /\ Len(whist) = 3
  /\ whist[1].len = 1
  /\ whist[2].len = MaxCap
  /\ Len(sinks[bw.wr].log) = 2
  /\ Concat(sinks[bw.wr].log) = Payload(1, MaxCap + 1)

\* ---------------------------------------------------------------- C33
\* the writer of the example: capacity 40, one Write of 5 bytes
ExampleWriter == Write(NewWriterSize(1, 40), [i \in 1..NSinks |-> NoSink],
                       Payload(1, 5), TRUE, 0).bw

\* C33: the cursors stay in order, 0 <= read <= write <= capacity, for the
\* writer (which has only the write cursor) and for the reader, and the
\* writer's Available() is the capacity less the bytes buffered and lies in
\* 0..capacity; a writer of capacity 40 reports 35 after a Write of 5 bytes.
C33_CursorsInOrder ==
  /\ 0 <= Buffered(bw) /\ Buffered(bw) <= bw.size
  /\ Available(bw) = bw.size - Buffered(bw)
  /\ Available(bw) \in 0..bw.size
  /\ 0 <= br.r /\ br.r <= br.w /\ br.w <= br.size
  /\ Len(br.buf) = br.size
  /\ Available(ExampleWriter) = 35

\* a writer whose buffer is partly filled by the last Write
C33_Witness ==
  /\ LastWas("Write")
  /\ bw.size = MaxCap
  /\ Buffered(bw) = 1
  /\ Available(bw) = MaxCap - 1

\* a reader with unread bytes behind bytes already read
C33_ReaderWitness ==
  /\ 0 < br.r /\ br.r < br.w /\ br.w <= br.size

\* ---------------------------------------------------------------- C34
\* The reader of the ReadByte loop, over a source that records, in asked, the
\* size each read of it was made with.
MaxReads == MaxSrc + 2
NoRefill == [pre |-> NewReaderSize(1), n |-> 0, bytes |-> 0, eofs |-> 0,
             bytewise |-> TRUE]
RefillIdle == rf = NoRefill

RefillInit ==
  /\ \E size \in 1..MaxCap : br = NewReaderSize(size)
  /\ \E len \in 0..MaxSrc, chunk \in {1, MaxCap} :
       rsrc = [data |-> Payload(1, len), chunk |-> chunk, asked |-> <<>>]
  /\ rlast = NoLast
  /\ rprev = NoCall
  /\ rf = [NoRefill EXCEPT !.pre = br]

\* _, err := reader.ReadByte()
RefillReadByte ==
  /\ Len(rsrc.asked) < MaxReads
  /\ LET c == ReadByte(br, rsrc)
     IN /\ br' = c.b
        /\ rsrc' = c.src
        /\ rlast' = Record("ReadByte", 0, c)
        /\ rprev' = Previous
        /\ rf' = [rf EXCEPT !.pre = br, !.n = Len(rsrc.asked),
                            !.bytes = @ + Len(c.res),
                            !.eofs = @ + (IF c.err = "EOF" THEN 1 ELSE 0)]
  /\ UNCHANGED <<wvars, pvars, lvars, svars, cvars, ivars, avars, hvars, tvars, gvars, kvars>>

\* reader.Peek(n)
RefillPeek ==
  /\ Len(rsrc.asked) < MaxReads
  /\ \E n \in 0..(MaxCap + 1) :
       LET c == Peek(br, rsrc, n)
       IN /\ br' = c.b
          /\ rsrc' = c.src
          /\ rlast' = Record("Peek", n, c)
          /\ rprev' = Previous
          /\ rf' = [rf EXCEPT !.pre = br, !.n = Len(rsrc.asked),
                              !.eofs = @ + (IF c.err = "EOF" THEN 1 ELSE 0),
                              !.bytewise = FALSE]
  /\ UNCHANGED <<wvars, pvars, lvars, svars, cvars, ivars, avars, hvars, tvars, gvars, kvars>>

NextF == RefillReadByte \/ RefillPeek

\* the source reads the last call made, by the size asked for
NewReads == Drop(rsrc.asked, rf.n)
\* the buffer held what the last call needed when the call began
HeldBefore ==
  IF rlast.op = "ReadByte" THEN RBuffered(rf.pre) >= 1
  ELSE RBuffered(rf.pre) >= Min(rlast.arg, rf.pre.size)
CeilDiv(a, b) == (a + b - 1) \div b

\* C34: a call reads the source only when the buffer does not hold the bytes
\* it needs (and no error is pending); the read asks for the capacity less the
\* bytes still buffered, ReadByte makes exactly one, and a Peek that makes
\* another asks for less, by what the read before it delivered. So a source that fills every request,
\* consumed a byte at a time, is read once per capacity-sized chunk (and once
\* per end-of-file answer), not once per byte.
C34_RefillPolicy ==
  rlast.op # "none" =>
    /\ (HeldBefore \/ rf.pre.err # "nil") => NewReads = <<>>
    /\ (~HeldBefore /\ rf.pre.err = "nil") =>
         /\ NewReads # <<>>
         /\ NewReads[1] = rf.pre.size - RBuffered(rf.pre)
    /\ rlast.op = "ReadByte" => Len(NewReads) <= 1
    /\ \A i \in 1..(Len(NewReads) - 1) :
         /\ NewReads[i + 1] < NewReads[i]
         /\ NewReads[i + 1] >= NewReads[i] - Min(NewReads[i], rsrc.chunk)
    /\ \A i \in 1..Len(NewReads) : NewReads[i] \in 1..br.size
    /\ (rf.bytewise /\ rsrc.chunk >= br.size) =>
         /\ Len(rsrc.asked) = CeilDiv(rf.bytes, br.size) + rf.eofs
         /\ \A i \in 1..Len(rsrc.asked) : rsrc.asked[i] = br.size

\* MaxSrc bytes consumed one at a time through a buffer of MaxCap: one read
\* per chunk and the one that met the end of the source
C34_Witness ==
  /\ rf.bytewise
  /\ br.size = MaxCap /\ rsrc.chunk = MaxCap
  /\ rf.bytes = MaxSrc
  /\ rlast.err = "EOF"
  /\ Len(rsrc.asked) = CeilDiv(MaxSrc, MaxCap) + 1
  /\ Len(rsrc.asked) < MaxSrc

\* ---------------------------------------------------------------- C35
\* C35 as stated: repeated Scan calls come to a false (every Scan that returns
\* true gives a token, and a finite source gives at most one token per byte
\* and a last one), and once Scan has returned false every later Scan returns
\* false too.
C35_AsStated ==
  /\ Len(stoks) <= Len(sin) + 1
  /\ sret.after => ~sret.ok

\* the half of C35 that holds: the Scans that return true are bounded by the
\* length of the source, so the calls come to a false
C35_ScansBounded == Len(stoks) <= Len(sin) + 1

\* a Scan that returns true after a Scan that returned false
C35_Resumed == sret.after /\ sret.ok /\ sret.stop = "ErrTooLong"

\* ---------------------------------------------------------------- C36
\* The ReadLine loop and the Scanner loop of ReuseBuffer on one input.
NoAgree == [lines |-> <<>>, done |-> FALSE]
AgreeIdle == ag = NoAgree
\* the capacities the reader is tried with
AgreeSizes == {MaxCap, MaxTokenSize, MaxSrc + 1}

AgreeInit ==
  /\ sin \in Sources
  /\ \E size \in AgreeSizes : br = NewReaderSize(size)
  /\ \E chunk \in {1, MaxSrc + 1} :
       /\ rsrc = [data |-> sin, chunk |-> chunk]
       /\ ssrc = [data |-> sin, chunk |-> chunk, end |-> "EOF"]
  /\ \E max \in {MaxTokenSize, MaxSrc + 1} : sc = NewScanner("ScanLines", max)
  /\ stoks = <<>>
  /\ sret = NoScan
  /\ rlast = NoLast
  /\ rprev = NoCall
  /\ ag = NoAgree

\* token, _, err := bs.ReadLine(); if err != nil { break }
AgreeReadLine ==
  /\ ~ag.done
  /\ LET c == ReadLine(br, rsrc)
     IN /\ br' = c.b
        /\ rsrc' = c.src
        /\ ag' = [lines |-> IF c.err = "nil" THEN Append(ag.lines, c.res)
                            ELSE ag.lines,
                  done |-> c.err # "nil"]
  /\ UNCHANGED <<rlast, rprev, svars, wvars, pvars, lvars, cvars, ivars, fvars, hvars, tvars, gvars, kvars>>

\* for scanner.Scan() { scanner.Text() }
AgreeScan ==
  /\ ag.done /\ sret.falses = 0
  /\ LET c == Scan(sc, ssrc)
     IN /\ sc' = c.s
        /\ ssrc' = c.src
        /\ stoks' = IF c.ok THEN Append(stoks, c.s.token) ELSE stoks
        /\ sret' = [ok |-> c.ok,
                    falses |-> IF c.ok THEN sret.falses ELSE sret.falses + 1,
                    stop |-> IF ~c.ok THEN Err(c.s) ELSE sret.stop,
                    after |-> FALSE]
  /\ UNCHANGED <<sin, ag, rvars, wvars, pvars, lvars, cvars, ivars, fvars, hvars, tvars, gvars, kvars>>

NextA == AgreeReadLine \/ AgreeScan

\* the bytes of the line that s[i] is in, up to and including s[i]
RunTo(s, i) ==
  i - (IF \E j \in 1..(i - 1) : s[j] = LF
       THEN CHOOSE j \in 1..(i - 1) : s[j] = LF /\ \A k \in (j + 1)..(i - 1) : s[k] # LF
       ELSE 0)
\* the length of that line without its terminator ("\n" or "\r\n")
ContentTo(s, i) ==
  IF s[i] # LF THEN RunTo(s, i)
  ELSE IF RunTo(s, i) > 1 /\ s[i - 1] = CR THEN RunTo(s, i) - 2
  ELSE RunTo(s, i) - 1
\* every "\r" is directly followed by "\n"
CRLFOnly(s) == \A i \in 1..Len(s) : s[i] = CR => (i < Len(s) /\ s[i + 1] = LF)
\* both loops have run to their end
BothDone == ag.done /\ sret.falses > 0

\* C36 as stated: when no line (the bytes between the terminators) is longer
\* than the reader's capacity or the scanner's maximum and every "\r" is
\* directly followed by "\n", the tokens of the Scanner are the lines of the
\* ReadLine calls.
C36_AsStated ==
  (/\ BothDone
   /\ CRLFOnly(sin)
   /\ \A i \in 1..Len(sin) : ContentTo(sin, i) <= Min(br.size, sc.max))
    => stoks = ag.lines

\* C36: when no line with its terminator is longer than the reader's capacity
\* or the scanner's maximum, a last line that no "\n" ends is shorter than the
\* scanner's maximum, and every "\r" is directly followed by "\n", the tokens
\* of the Scanner are the lines of the ReadLine calls.
C36_ScannerAgreesWithReadLine ==
  (/\ BothDone
   /\ CRLFOnly(sin)
   /\ \A i \in 1..Len(sin) : RunTo(sin, i) <= Min(br.size, sc.max)
   /\ (sin # <<>> /\ sin[Len(sin)] # LF) => RunTo(sin, Len(sin)) < sc.max)
    => stoks = ag.lines

\* "a\r\n\na": a line ended by "\r\n", an empty line and a last line that no
\* "\n" ends, through a reader and a scanner of three bytes
C36_Witness ==
  /\ BothDone
  /\ sin = <<97, CR, LF, LF, 97>>
  /\ br.size = MaxTokenSize /\ sc.max = MaxTokenSize
  /\ stoks = <<<<97>>, <<>>, <<97>>>>
  /\ ag.lines = stoks

\* ================================================================ IntMin
\* IntMin(a, b) of the package under test: the smaller of two ints.
\* A plausible slip: the magnitudes are compared.
Abs(x) == IF x < 0 THEN -x ELSE x
IntMinMagnitude(a, b) == IF Abs(a) < Abs(b) THEN a ELSE b

IntMin(a, b) == IF a < b THEN a ELSE b

\* the rows of the table of TestIntMinTableDriven
IntMinTests == {<<10, 20>>, <<15, 8>>, <<-15, 0>>, <<-30, -33>>}
\* the arguments tried: the rows of the table and every pair of small ints
IntMinArgs == IntMinTests \cup ((-MaxInt..MaxInt) \X (-MaxInt..MaxInt))

NoIntMin == [n1 |-> 0, n2 |-> 0, ans |-> 0, called |-> FALSE]
IntMinIdle == imin = NoIntMin

IntMinInit ==
  \E t \in IntMinArgs : imin = [n1 |-> t[1], n2 |-> t[2], ans |-> 0, called |-> FALSE]

\* ans := IntMin(tt.n1, tt.n2)
DoIntMin ==
  /\ ~imin.called
  /\ imin' = [imin EXCEPT !.ans = IntMin(imin.n1, imin.n2), !.called = TRUE]
  /\ UNCHANGED <<wvars, pvars, rvars, lvars, svars, cvars, fvars, avars, hvars, tvars, gvars, kvars>>

NextI == DoIntMin

Emails == {"e1", "e2"}
Names == {"n1"}
\* the zero value of user
ZeroUser == [Name |-> "", Email |-> ""]
\* request bodies: the JSON of a user, or bytes that are no JSON
Bodies == [ok : {TRUE}, Name : Names, Email : Emails] \cup
          {[ok |-> FALSE, Name |-> "", Email |-> ""]}
\* json.Unmarshal(data, &newUser), its error dropped: newUser stays the zero
\* value when the body does not parse
Unmarshal(body) ==
  IF body.ok THEN [Name |-> body.Name, Email |-> body.Email] ELSE ZeroUser

StatusOK == 200
StatusCreated == 201
StatusAccepted == 202
StatusBadRequest == 400
StatusMethodNotAllowed == 405

\* for _, v := range users { if v.Email == newUser.Email
HasEmail(us, email) == \E i \in 1..Len(us) : us[i].Email = email

IdleHandler == [pc |-> "idle", method |-> "", newUser |-> ZeroUser, snap |-> <<>>,
                base |-> <<>>, status |-> 0]
HandlerIdle ==
  /\ users = <<>>
  /\ hs = [h \in 1..MaxConn |-> IdleHandler]
  /\ hst = [served |-> 0, overlap |-> FALSE]

HandlerInit == HandlerIdle

Free(h) == hs[h].pc \in {"idle", "done"}
Take1(h, rec) == hs' = [hs EXCEPT ![h] = rec]
Served == hst' = [hst EXCEPT !.served = @ + 1]

\* a request for a path other than /users: nothing is written, the server
\* answers 200
OtherPath(h) ==
  /\ Free(h) /\ hst.served < MaxReqs
  /\ Take1(h, [IdleHandler EXCEPT !.pc = "done", !.method = "GET",
                                  !.status = StatusOK])
  /\ Served
  /\ UNCHANGED users
  /\ UNCHANGED <<wvars, pvars, rvars, lvars, svars, cvars, ivars, fvars, avars, tvars, gvars, kvars>>

\* GET /users: json.Marshal(users), 202
Get(h) ==
  /\ Free(h) /\ hst.served < MaxReqs
  /\ Take1(h, [IdleHandler EXCEPT !.pc = "done", !.method = "GET",
                                  !.snap = users, !.status = StatusAccepted])
  /\ Served
  /\ UNCHANGED users
  /\ UNCHANGED <<wvars, pvars, rvars, lvars, svars, cvars, ivars, fvars, avars, tvars, gvars, kvars>>

\* any other method on /users: 405
NotAllowed(h) ==
  /\ Free(h) /\ hst.served < MaxReqs
  /\ Take1(h, [IdleHandler EXCEPT !.pc = "done", !.method = "PUT",
                                  !.status = StatusMethodNotAllowed])
  /\ Served
  /\ UNCHANGED users
  /\ UNCHANGED <<wvars, pvars, rvars, lvars, svars, cvars, ivars, fvars, avars, tvars, gvars, kvars>>

\* POST /users: the body is read and parsed into newUser
PostBody(h) ==
  /\ Free(h) /\ hst.served < MaxReqs
  /\ \E body \in Bodies :
       Take1(h, [IdleHandler EXCEPT !.pc = "range", !.method = "POST",
                                   !.newUser = Unmarshal(body)])
  /\ Served
  /\ UNCHANGED users
  /\ UNCHANGED <<wvars, pvars, rvars, lvars, svars, cvars, ivars, fvars, avars, tvars, gvars, kvars>>

\* the range loop: users is read once, then its elements are compared; 400 and
\* return when one has the e-mail
PostRange(h) ==
  /\ hs[h].pc = "range"
  /\ IF HasEmail(users, hs[h].newUser.Email)
     THEN Take1(h, [hs[h] EXCEPT !.pc = "done", !.snap = users,
                                !.status = StatusBadRequest])
     ELSE Take1(h, [hs[h] EXCEPT !.pc = "append", !.snap = users])
  /\ hst' = [hst EXCEPT !.overlap =
                @ \/ (~HasEmail(users, hs[h].newUser.Email) /\
                      \E g \in 1..MaxConn : g # h /\ hs[g].pc \in {"append", "store"})]
  /\ UNCHANGED users
  /\ UNCHANGED <<wvars, pvars, rvars, lvars, svars, cvars, ivars, fvars, avars, tvars, gvars, kvars>>

\* users = append(users, newUser), first half: users is read
PostAppend(h) ==
  /\ hs[h].pc = "append"
  /\ Take1(h, [hs[h] EXCEPT !.pc = "store", !.base = users])
  /\ UNCHANGED <<users, hst>>
  /\ UNCHANGED <<wvars, pvars, rvars, lvars, svars, cvars, ivars, fvars, avars, tvars, gvars, kvars>>

\* users = append(users, newUser), second half: the new slice is stored; 201
PostStore(h) ==
  /\ hs[h].pc = "store"
  /\ users' = Append(hs[h].base, hs[h].newUser)
  /\ Take1(h, [hs[h] EXCEPT !.pc = "done", !.status = StatusCreated])
  /\ UNCHANGED hst
  /\ UNCHANGED <<wvars, pvars, rvars, lvars, svars, cvars, ivars, fvars, avars, tvars, gvars, kvars>>

\* routeHandler, served by up to MaxConn goroutines at once
NextH ==
  \/ \E h \in 1..MaxConn : OtherPath(h)
  \/ \E h \in 1..MaxConn : Get(h)
  \/ \E h \in 1..MaxConn : NotAllowed(h)
  \/ \E h \in 1..MaxConn : PostBody(h)
  \/ \E h \in 1..MaxConn : PostRange(h)
  \/ \E h \in 1..MaxConn : PostAppend(h)
  \/ \E h \in 1..MaxConn : PostStore(h)

NoDuplicateEmails ==
  \A i, j \in 1..Len(users) : i # j => users[i].Email # users[j].Email

\* C37 as stated: whatever requests routeHandler has served, at once or one
\* after the other, no two entries of users have the same Email, and a POST
\* answered 400 found its e-mail in users.
C37_AsStated ==
  /\ NoDuplicateEmails
  /\ \A h \in 1..MaxConn :
       hs[h].status = StatusBadRequest => HasEmail(hs[h].snap, hs[h].newUser.Email)

\* what holds of C37: a POST is answered 400 only when its e-mail was in users,
\* and then it stores nothing; as long as no two POST handlers were between
\* their check and their append at once, no two entries have the same Email
C37_OneAtATime ==
  /\ \A h \in 1..MaxConn :
       hs[h].status = StatusBadRequest =>
         /\ HasEmail(hs[h].snap, hs[h].newUser.Email)
         /\ hs[h].base = <<>>
  /\ ~hst.overlap => NoDuplicateEmails

\* two users with one e-mail, each answered 201
C37_Duplicate ==
  /\ Len(users) = 2
  /\ users[1].Email = users[2].Email
  /\ \A h \in 1..MaxConn : hs[h].status = StatusCreated

\* a POST with an e-mail that is present, answered 400
C37_Rejected ==
  \E h \in 1..MaxConn :
    /\ hs[h].status = StatusBadRequest
    /\ users # <<>> /\ hs[h].snap = users

\* ================================================================ TCP echo
\* The client of client/main.go and the handleConnection of the server, over
\* one TCP connection that loses and reorders nothing: each direction is a
\* queue of bytes of bounded size, closed by CloseWrite or Close.
\* A plausible slip: the client does not close its write side.
CloseWriteNothing(c) == c

\* tcpConn.CloseWrite()
CloseWrite(c) == [c EXCEPT !.c2sFin = TRUE]
\* the server's conn.Close()
Close(c) == [c EXCEPT !.s2cFin = TRUE]

NoConn == [c2s |-> <<>>, s2c |-> <<>>, c2sFin |-> FALSE, s2cFin |-> FALSE,
           cap |-> 1, temp |-> 1]
EchoIdle ==
  /\ conn = NoConn
  /\ cl = [pc |-> "off", message |-> <<>>, rest |-> <<>>, data |-> <<>>]
  /\ sv = [pc |-> "off", data |-> <<>>, rest |-> <<>>]

\* net.Dial and listener.Accept have connected the two
EchoInit ==
  /\ \E cap \in 1..MaxSock, temp \in 1..MaxSock :
       conn = [NoConn EXCEPT !.cap = cap, !.temp = temp]
  /\ \E len \in 0..MaxMessage :
       cl = [pc |-> "write", message |-> Payload(1, len), rest |-> Payload(1, len),
             data |-> <<>>]
  /\ sv = [pc |-> "read", data |-> <<>>, rest |-> <<>>]

\* conn.Write([]byte(message)): the bytes go out as the connection takes them;
\* Write returns when the last has gone
ClientWrite ==
  /\ cl.pc = "write"
  /\ IF cl.rest = <<>>
     THEN /\ cl' = [cl EXCEPT !.pc = "closewrite"]
          /\ UNCHANGED conn
     ELSE \E n \in 1..Min(Len(cl.rest), conn.cap - Len(conn.c2s)) :
            /\ conn' = [conn EXCEPT !.c2s = @ \o Take(cl.rest, n)]
            /\ cl' = [cl EXCEPT !.rest = Drop(@, n)]
  /\ UNCHANGED sv
  /\ UNCHANGED <<wvars, pvars, rvars, lvars, svars, cvars, ivars, fvars, avars, hvars, gvars, kvars>>

\* tcpConn.CloseWrite()
ClientCloseWrite ==
  /\ cl.pc = "closewrite"
  /\ conn' = CloseWrite(conn)
  /\ cl' = [cl EXCEPT !.pc = "read"]
  /\ UNCHANGED sv
  /\ UNCHANGED <<wvars, pvars, rvars, lvars, svars, cvars, ivars, fvars, avars, hvars, gvars, kvars>>

\* the client's loop: n, err := conn.Read(temp); io.EOF ends it
ClientRead ==
  /\ cl.pc = "read"
  /\ IF conn.s2c # <<>>
     THEN \E n \in 1..Min(Len(conn.s2c), conn.temp) :
            /\ cl' = [cl EXCEPT !.data = @ \o Take(conn.s2c, n)]
            /\ conn' = [conn EXCEPT !.s2c = Drop(@, n)]
     ELSE /\ conn.s2cFin
          /\ cl' = [cl EXCEPT !.pc = "done"]
          /\ UNCHANGED conn
  /\ UNCHANGED sv
  /\ UNCHANGED <<wvars, pvars, rvars, lvars, svars, cvars, ivars, fvars, avars, hvars, gvars, kvars>>

\* the server's loop: n, err := conn.Read(temp); io.EOF ends it
ServerRead ==
  /\ sv.pc = "read"
  /\ IF conn.c2s # <<>>
     THEN \E n \in 1..Min(Len(conn.c2s), conn.temp) :
            /\ sv' = [sv EXCEPT !.data = @ \o Take(conn.c2s, n)]
            /\ conn' = [conn EXCEPT !.c2s = Drop(@, n)]
     ELSE /\ conn.c2sFin
          /\ sv' = [sv EXCEPT !.pc = "write", !.rest = sv.data]
          /\ UNCHANGED conn
  /\ UNCHANGED cl
  /\ UNCHANGED <<wvars, pvars, rvars, lvars, svars, cvars, ivars, fvars, avars, hvars, gvars, kvars>>

\* conn.Write(data)
ServerWrite ==
  /\ sv.pc = "write"
  /\ IF sv.rest = <<>>
     THEN /\ sv' = [sv EXCEPT !.pc = "close"]
          /\ UNCHANGED conn
     ELSE \E n \in 1..Min(Len(sv.rest), conn.cap - Len(conn.s2c)) :
            /\ conn' = [conn EXCEPT !.s2c = @ \o Take(sv.rest, n)]
            /\ sv' = [sv EXCEPT !.rest = Drop(@, n)]
  /\ UNCHANGED cl
  /\ UNCHANGED <<wvars, pvars, rvars, lvars, svars, cvars, ivars, fvars, avars, hvars, gvars, kvars>>

\* defer conn.Close() of handleConnection
ServerClose ==
  /\ sv.pc = "close"
  /\ conn' = Close(conn)
  /\ sv' = [sv EXCEPT !.pc = "done"]
  /\ UNCHANGED cl
  /\ UNCHANGED <<wvars, pvars, rvars, lvars, svars, cvars, ivars, fvars, avars, hvars, gvars, kvars>>

NextT ==
  \/ ClientWrite
  \/ ClientCloseWrite
  \/ ClientRead
  \/ ServerRead
  \/ ServerWrite
  \/ ServerClose

\* both programs run on: a step of either that stays possible is taken
FairT ==
  /\ WF_vars(ClientWrite \/ ClientCloseWrite \/ ClientRead)
  /\ WF_vars(ServerRead \/ ServerWrite \/ ServerClose)

\* C38: the client sends, closes its write side and reads to the end of the
\* stream, the server reads to the end of the stream, writes back what it got
\* and closes: both come to their end, and what the client has received when
\* it ends is the message it sent.
C38_EchoTerminates ==
  /\ <>(cl.pc = "done" /\ sv.pc = "done")
  /\ [](cl.pc = "done" => cl.data = cl.message)
  /\ [](sv.pc \in {"write", "close", "done"} => sv.data = cl.message)

\* a message longer than a direction of the connection holds, echoed in full
C38_Witness ==
  /\ cl.pc = "done" /\ sv.pc = "done"
  /\ Len(cl.message) = MaxMessage
  /\ conn.cap < MaxMessage
  /\ cl.data = cl.message

\* ======================================================= context and channel
\* doSomething and doAnother of part_004: an unbuffered channel printCh and a
\* context with a deadline. Time is left out: the deadline may fire at any
\* moment, or not before doSomething cancels.
\* the sends of the loop: for i := 0; i < 10; i++
Sends == 10

\* A plausible slip: cancelCtx does not mark the context done.
cancelCtxNothing(c) == c

\* cancelCtx(): the first of cancel and deadline sets the error
cancelCtx(c) == IF c.err = "nil" THEN [c EXCEPT !.err = "canceled"] ELSE c
\* <-ctx.Done() can be received
Done(c) == c.err # "nil"

ContextIdle ==
  /\ ctx = [err |-> "nil"]
  /\ ds = [pc |-> "off", i |-> 0]
  /\ da = [pc |-> "off", got |-> <<>>, late |-> 0]

\* context.WithTimeout, make(chan int), go doAnother(ctx, printCh)
ContextInit ==
  /\ ctx = [err |-> "nil"]
  /\ ds = [pc |-> "select", i |-> 0]
  /\ da = [pc |-> "select", got |-> <<>>, late |-> 0]

\* the timer of context.WithTimeout fires
Deadline ==
  /\ ctx.err = "nil"
  /\ ctx' = [ctx EXCEPT !.err = "deadline"]
  /\ UNCHANGED <<ds, da>>
  /\ UNCHANGED <<wvars, pvars, rvars, lvars, svars, cvars, ivars, fvars, avars, hvars, tvars, kvars>>

\* case printCh <- i meets case num := <-printCh: the channel has no buffer, so
\* the send and the receive are one step; select may take it with the context
\* done as well
Handoff ==
  /\ ds.pc = "select" /\ da.pc = "select"
  /\ ds' = [ds EXCEPT !.pc = "sleep"]
  /\ da' = [da EXCEPT !.pc = "print", !.got = Append(@, ds.i),
                       !.late = @ + (IF Done(ctx) THEN 1 ELSE 0)]
  /\ UNCHANGED ctx
  /\ UNCHANGED <<wvars, pvars, rvars, lvars, svars, cvars, ivars, fvars, avars, hvars, tvars, kvars>>

\* time.Sleep(1 * time.Second); i++; i < 10
SleepNext ==
  /\ ds.pc = "sleep"
  /\ ds' = [pc |-> IF ds.i + 1 < Sends THEN "select" ELSE "cancel", i |-> ds.i + 1]
  /\ UNCHANGED <<ctx, da>>
  /\ UNCHANGED <<wvars, pvars, rvars, lvars, svars, cvars, ivars, fvars, avars, hvars, tvars, kvars>>

\* doSomething: case <-ctx.Done(): return (and the deferred cancelCtx)
SomethingDone ==
  /\ ds.pc = "select" /\ Done(ctx)
  /\ ds' = [ds EXCEPT !.pc = "returned"]
  /\ ctx' = cancelCtx(ctx)
  /\ UNCHANGED da
  /\ UNCHANGED <<wvars, pvars, rvars, lvars, svars, cvars, ivars, fvars, avars, hvars, tvars, kvars>>

\* after the loop: cancelCtx()
SomethingCancel ==
  /\ ds.pc = "cancel"
  /\ ctx' = cancelCtx(ctx)
  /\ ds' = [ds EXCEPT !.pc = "finish"]
  /\ UNCHANGED da
  /\ UNCHANGED <<wvars, pvars, rvars, lvars, svars, cvars, ivars, fvars, avars, hvars, tvars, kvars>>

\* time.Sleep(100 ms), "Doing something finished", return
SomethingFinish ==
  /\ ds.pc = "finish"
  /\ ds' = [ds EXCEPT !.pc = "returned"]
  /\ ctx' = cancelCtx(ctx)
  /\ UNCHANGED da
  /\ UNCHANGED <<wvars, pvars, rvars, lvars, svars, cvars, ivars, fvars, avars, hvars, tvars, kvars>>

\* doAnother: fmt.Println("do another:", num), back to the select
AnotherPrint ==
  /\ da.pc = "print"
  /\ da' = [da EXCEPT !.pc = "select"]
  /\ UNCHANGED <<ctx, ds>>
  /\ UNCHANGED <<wvars, pvars, rvars, lvars, svars, cvars, ivars, fvars, avars, hvars, tvars, kvars>>

\* doAnother: case <-ctx.Done(): ... return
AnotherDone ==
  /\ da.pc = "select" /\ Done(ctx)
  /\ da' = [da EXCEPT !.pc = "returned"]
  /\ UNCHANGED <<ctx, ds>>
  /\ UNCHANGED <<wvars, pvars, rvars, lvars, svars, cvars, ivars, fvars, avars, hvars, tvars, kvars>>

NextG ==
  \/ Deadline
  \/ Handoff
  \/ SleepNext
  \/ SomethingDone
  \/ SomethingCancel
  \/ SomethingFinish
  \/ AnotherPrint
  \/ AnotherDone

\* both goroutines are scheduled; nothing is assumed of the timer
FairG ==
  /\ WF_vars(Handoff \/ SleepNext \/ SomethingDone \/ SomethingCancel \/ SomethingFinish)
  /\ WF_vars(Handoff \/ AnotherPrint \/ AnotherDone)

\* C39: whenever the deadline fires, doSomething returns and doAnother
\* returns; the values doAnother has received are 0, 1, 2, ... in the order
\* sent, and it receives none once it has taken the case of the done context.
C39_BothReturn ==
  /\ <>(ds.pc = "returned" /\ da.pc = "returned")
  /\ [](da.got = [k \in 1..Len(da.got) |-> k - 1])
  /\ [][da.pc = "returned" => da' = da]_vars

\* the deadline fired between the sends: doAnother got 0 and 1, the second
\* with the context already done, and both have returned
C39_Witness ==
  /\ ds.pc = "returned" /\ da.pc = "returned"
  /\ ctx.err = "deadline"
  /\ da.got = <<0, 1>>
  /\ da.late = 1

\* ========================================================= printLastNLines
\* The loop of printLastNLines: for i := len(lines) - num; i < len(lines); i++,
\* with lines[i] a run-time panic when i is below 0. (i counts from 0.)
RECURSIVE LastLoop(_, _, _)
LastLoop(lines, i, acc) ==
  IF i >= Len(lines) THEN [res |-> acc, panic |-> FALSE]
  ELSE IF i < 0 THEN [res |-> acc, panic |-> TRUE]
  ELSE LastLoop(lines, i + 1, Append(acc, lines[i + 1]))

printLastNLines(lines, num) == LastLoop(lines, Len(lines) - num, <<>>)

\* the file has n lines, told apart by their place
LinesOf(n) == [k \in 1..n |-> k]
NoCallYet == [lines |-> <<>>, num |-> 0, res |-> <<>>, panic |-> FALSE,
           called |-> FALSE]
LastIdle == pl = NoCallYet

LastInit ==
  \E n \in 0..MaxLines, num \in (-1)..(MaxLines + 1) :
    pl = [NoCallYet EXCEPT !.lines = LinesOf(n), !.num = num]

\* printLastNLines := printLastNLines(lines, num)
DoLast ==
  /\ ~pl.called
  /\ LET r == printLastNLines(pl.lines, pl.num)
     IN pl' = [pl EXCEPT !.res = r.res, !.panic = r.panic, !.called = TRUE]
  /\ UNCHANGED <<wvars, pvars, rvars, lvars, svars, cvars, ivars, fvars, avars, hvars, tvars, gvars>>

NextK == DoLast

\* the last n elements of s, all of s when it has fewer
LastOf(s, n) == IF n >= Len(s) THEN s ELSE SubSeq(s, Len(s) - n + 1, Len(s))

\* C40 as stated: for any list of lines and any num (0 or more) the call
\* returns the last num lines in their order, all of them when the list has
\* fewer.
C40_AsStated ==
  (pl.called /\ pl.num >= 0) =>
    /\ ~pl.panic
    /\ pl.res = LastOf(pl.lines, pl.num)

\* what holds of C40: with num from 0 to the number of lines the call returns
\* the last num lines in their order; with num below 0 it returns none
C40_WithinLength ==
  pl.called =>
    /\ (pl.num >= 0 /\ pl.num <= Len(pl.lines)) =>
         ~pl.panic /\ pl.res = LastOf(pl.lines, pl.num)
    /\ pl.num < 0 => ~pl.panic /\ pl.res = <<>>
    /\ pl.panic <=> pl.num > Len(pl.lines)

\* the call of main on a file of two lines
C40_Panic ==
  /\ pl.called /\ pl.panic
  /\ Len(pl.lines) = 2 /\ pl.num = 3

\* ------------------------------------------------------------ specifications
\* the smaller programs, not started
ExamplesIdle == IntMinIdle /\ RefillIdle /\ AgreeIdle /\ HandlerIdle /\ EchoIdle /\ ContextIdle /\ LastIdle

ReaderIdle ==
  /\ br = NewReaderSize(1)
  /\ rsrc = [data |-> <<>>, chunk |-> 1]
  /\ rlast = NoCallYet
  /\ rprev = NoCall

InitW == WriterInit /\ PipeInit /\ ReaderIdle /\ LoopIdle /\ ScannerIdle /\ CombIdle /\ ExamplesIdle
SpecW == InitW /\ [][NextW]_vars

WriterIdle ==
  /\ bw = NewWriterSize(1, 1)
  /\ sinks = [i \in 1..NSinks |-> NoSink]
  /\ wnext = 1
  /\ whist = <<>>
  /\ wprev = [bw |-> bw, sinks |-> sinks]
  /\ wret = [n |-> 0, err |-> "nil"]

InitP == PipeInit /\ WriterIdle /\ ReaderIdle /\ LoopIdle /\ ScannerIdle /\ CombIdle /\ ExamplesIdle
SpecP == InitP /\ [][NextP]_vars

InitR == ReaderInit /\ WriterIdle /\ PipeInit /\ LoopIdle /\ ScannerIdle /\ CombIdle /\ ExamplesIdle
SpecR == InitR /\ [][NextR]_vars

InitL == LoopInit /\ WriterIdle /\ PipeInit /\ ScannerIdle /\ CombIdle /\ ExamplesIdle
SpecL == InitL /\ [][NextL]_vars

InitS == ScannerInit /\ WriterIdle /\ PipeInit /\ ReaderIdle /\ LoopIdle /\ CombIdle /\ ExamplesIdle
SpecS == InitS /\ [][NextS]_vars

\* either of the two re-use examples: bw.Reset(w) or bs.Reset(str)
InitU ==
  \/ WriterInit /\ PipeInit /\ ReaderIdle /\ LoopIdle /\ ScannerIdle /\ CombIdle /\ ExamplesIdle
  \/ ReuseInit /\ WriterIdle /\ PipeInit /\ ScannerIdle /\ CombIdle /\ ExamplesIdle
ReaderUnused == ReaderIdle /\ LoopIdle
NextU ==
  \/ ReaderUnused /\ DoWrite
  \/ ReaderUnused /\ DoFlush
  \/ ReaderUnused /\ DoReset
  \/ WriterIdle /\ LoopReadSlice
  \/ WriterIdle /\ LoopReadLine
  \/ WriterIdle /\ LoopReadBytes
  \/ WriterIdle /\ ReuseReset
SpecU == InitU /\ [][NextU]_vars

InitN == TunnelInit /\ WriterIdle /\ ReaderIdle /\ LoopIdle /\ ScannerIdle /\ ExamplesIdle
SpecN == InitN /\ [][NextN]_vars /\ FairN

InitC == CombInit /\ WriterIdle /\ PipeInit /\ ReaderIdle /\ LoopIdle /\ ScannerIdle /\ ExamplesIdle
SpecC == InitC /\ [][NextC]_vars

InitI == IntMinInit /\ WriterIdle /\ PipeInit /\ ReaderIdle /\ LoopIdle /\ ScannerIdle /\ CombIdle
         /\ RefillIdle /\ AgreeIdle /\ HandlerIdle /\ EchoIdle /\ ContextIdle /\ LastIdle
SpecI == InitI /\ [][NextI]_vars

InitF == RefillInit /\ WriterIdle /\ PipeInit /\ LoopIdle /\ ScannerIdle /\ CombIdle
         /\ IntMinIdle /\ AgreeIdle /\ HandlerIdle /\ EchoIdle /\ ContextIdle /\ LastIdle
SpecF == InitF /\ [][NextF]_vars

InitA == AgreeInit /\ WriterIdle /\ PipeInit /\ LoopIdle /\ CombIdle
         /\ IntMinIdle /\ RefillIdle /\ HandlerIdle /\ EchoIdle /\ ContextIdle /\ LastIdle
SpecA == InitA /\ [][NextA]_vars

InitH == HandlerInit /\ WriterIdle /\ PipeInit /\ ReaderIdle /\ LoopIdle /\ ScannerIdle
         /\ CombIdle /\ IntMinIdle /\ RefillIdle /\ AgreeIdle /\ EchoIdle /\ ContextIdle /\ LastIdle
SpecH == InitH /\ [][NextH]_vars

InitT == EchoInit /\ WriterIdle /\ PipeInit /\ ReaderIdle /\ LoopIdle /\ ScannerIdle
         /\ CombIdle /\ IntMinIdle /\ RefillIdle /\ AgreeIdle /\ HandlerIdle /\ ContextIdle /\ LastIdle
SpecT == InitT /\ [][NextT]_vars /\ FairT

InitG == ContextInit /\ WriterIdle /\ PipeInit /\ ReaderIdle /\ LoopIdle /\ ScannerIdle
         /\ CombIdle /\ IntMinIdle /\ RefillIdle /\ AgreeIdle /\ HandlerIdle /\ EchoIdle /\ LastIdle
SpecG == InitG /\ [][NextG]_vars /\ FairG

InitK == LastInit /\ WriterIdle /\ PipeInit /\ ReaderIdle /\ LoopIdle /\ ScannerIdle
         /\ CombIdle /\ IntMinIdle /\ RefillIdle /\ AgreeIdle /\ HandlerIdle /\ EchoIdle
         /\ ContextIdle
SpecK == InitK /\ [][NextK]_vars

====
